---- MODULE Spec2Model ----
(***************************************************************************)
(* Geospatial ensemble prediction engine of alibandoned-homes:             *)
(* SpatialCrossValidator, SpatialClusteringPredictor (ClusterExpert),      *)
(* KernelDensityEstimator (DensityExpert) and EnsemblePredictor.           *)
(*                                                                         *)
(* Geometry.  Coordinates lie on one meridian, MaxLat + 1 grid positions   *)
(* apart by one grid unit.  On a meridian the haversine distance is the    *)
(* earth radius times the latitude difference, so in grid units it is      *)
(* |lat1 - lat2| exactly.  Sample indices are 1-based here (numpy's are    *)
(* 0-based).                                                               *)
(***************************************************************************)
EXTENDS Integers, Sequences, FiniteSets

VARIABLES cv, sp, kde, ens, fc, fe, bp

vars == <<cv, sp, kde, ens, fc, fe, bp>>

(***************************************************************************)
(* Bounds of the model.                                                    *)
(***************************************************************************)
MaxLat == 3
MaxPts == 3
MaxSplits == 2
MaxBuffer == 2

Lats == 0 .. MaxLat

\* Python's None, and a value that is not None
None == <<>>

Some(x) == <<x>>

\* every coordinate array of 1 .. n rows
CoordArrays(n) == UNION {[1 .. k -> Lats] : k \in 1 .. n}

Haversine(p, q) == IF p >= q THEN p - q ELSE q - p

Min(S) == CHOOSE x \in S : \A y \in S : x <= y

Max(S) == CHOOSE x \in S : \A y \in S : x >= y

RECURSIVE SortedSeq(_)
\* the elements of a set of integers in ascending order (np.where's order)
SortedSeq(S) == IF S = {} THEN <<>> ELSE <<Min(S)>> \o SortedSeq(S \ {Min(S)})

(***************************************************************************)
(* SpatialCrossValidator                                                   *)
(***************************************************************************)

\* What KMeans(n_clusters).fit_predict can return: one label in
\* 0 .. n_clusters-1 per row, equal rows getting equal labels (a row's label
\* is its nearest centre).  Which centres Lloyd's algorithm ends at is not
\* modelled, so every such labelling is allowed; a label may stay unused.
KMeansLabelings(coordinates, n_clusters) ==
    {l \in [DOMAIN coordinates -> 0 .. n_clusters - 1] :
        \A i, j \in DOMAIN coordinates :
            coordinates[i] = coordinates[j] => l[i] = l[j]}

\* a mutant: the test set takes the earlier blocks too
TestIndicesThrough(labels, fold_id) ==
    SortedSeq({i \in DOMAIN labels : labels[i] <= fold_id})

\* np.where(cluster_labels == fold_id)[0]
TestIndices(labels, fold_id) ==
    SortedSeq({i \in DOMAIN labels : labels[i] = fold_id})

\* np.where(~test_mask)[0]
PotentialTrainIndices(labels, fold_id) ==
    SortedSeq({i \in DOMAIN labels : labels[i] # fold_id})

\* a mutant: the buffer query finds no neighbour
QueryRadiusNone(test_coords, q, r) == {}

\* BallTree(test_coords).query_radius(q, r): the test points within r of q
QueryRadius(test_coords, q, r) ==
    {k \in DOMAIN test_coords : Haversine(test_coords[k], q) <= r}

\* is_too_close, one flag per potential train point
IsTooClose(coordinates, potential, test, r) ==
    [k \in DOMAIN potential |->
        QueryRadius([t \in DOMAIN test |-> coordinates[test[t]]],
                    coordinates[potential[k]], r) # {}]

\* a mutant: the positions of the kept flags, not the indices they stand for
FinalTrainPositions(potential, is_too_close) ==
    {k \in DOMAIN potential : ~is_too_close[k]}

\* potential_train_indices[~is_too_close]
FinalTrainIndices(potential, is_too_close) ==
    {potential[k] : k \in {j \in DOMAIN potential : ~is_too_close[j]}}

Range(s) == {s[i] : i \in DOMAIN s}

\* one iteration of split's loop: the (train, test) pair it yields
Fold(coordinates, labels, fold_id, r) ==
    LET test == TestIndices(labels, fold_id)
        potential == PotentialTrainIndices(labels, fold_id)
    IN  IF Len(test) = 0
        THEN [train |-> Range(potential), test |-> Range(test)]
        ELSE [train |-> FinalTrainIndices(potential,
                            IsTooClose(coordinates, potential, test, r)),
              test |-> Range(test)]

\* SpatialCrossValidator(n_splits, buffer_distance_km); the other objects
\* do not exist
CvInit ==
    /\ \E n \in 1 .. MaxSplits, b \in 0 .. MaxBuffer :
        cv = [n_splits |-> n, buffer_rad |-> b, pc |-> "constructed",
              coordinates |-> <<>>, cluster_labels |-> <<>>,
              fold_id |-> 0, folds |-> <<>>, used |-> <<>>]
    /\ sp = None
    /\ kde = None
    /\ ens = None
    /\ fc = None
    /\ fe = None
    /\ bp = None

\* split(X, y, coordinates) up to the loop: KMeans needs n_samples >= n_clusters
CvSplit ==
    /\ cv.pc = "constructed"
    /\ \E c \in CoordArrays(MaxPts) :
        /\ Len(c) >= cv.n_splits
        /\ \E l \in KMeansLabelings(c, cv.n_splits) :
            cv' = [cv EXCEPT !.pc = "splitting", !.coordinates = c,
                             !.cluster_labels = l]
    /\ UNCHANGED <<sp, kde, ens, fc, fe, bp>>

\* the generator's next fold
CvYield ==
    /\ cv.pc = "splitting"
    /\ cv.fold_id < cv.n_splits
    /\ cv' = [cv EXCEPT
                !.folds = Append(@, Fold(cv.coordinates, cv.cluster_labels,
                                         cv.fold_id, cv.buffer_rad)),
                !.fold_id = @ + 1]
    /\ UNCHANGED <<sp, kde, ens, fc, fe, bp>>

\* the generator is exhausted
CvStop ==
    /\ cv.pc = "splitting"
    /\ cv.fold_id = cv.n_splits
    /\ cv' = [cv EXCEPT !.pc = "done"]
    /\ UNCHANGED <<sp, kde, ens, fc, fe, bp>>

\* train_location_predictor.main: splits = list(spatial_cv.split(...)), then
\* the models are trained on splits[0] (a split never yields no fold)
CvTrainLocationPredictor ==
    /\ cv.pc = "done"
    /\ cv' = [cv EXCEPT !.pc = "used",
                        !.used = IF cv.folds = <<>> THEN <<>>
                                 ELSE <<cv.folds[1]>>]
    /\ UNCHANGED <<sp, kde, ens, fc, fe, bp>>

\* HyperparameterOptimizer.optimize_random_forest: every fold of the split
\* is handed to RandomizedSearchCV, which fits and scores on each
CvOptimizeRandomForest ==
    /\ cv.pc = "done"
    /\ cv' = [cv EXCEPT !.pc = "used", !.used = cv.folds]
    /\ UNCHANGED <<sp, kde, ens, fc, fe, bp>>

CvNext ==
    \/ CvSplit
    \/ CvYield
    \/ CvStop
    \/ CvTrainLocationPredictor
    \/ CvOptimizeRandomForest

SpecCV == CvInit /\ [][CvNext]_vars

\* C1: in every yielded fold with a non-empty test set, every train index is at
\* haversine distance >= buffer_distance from every test point of the fold.
C1_BufferRespected ==
    \A f \in Range(cv.folds) :
        f.test # {} =>
            \A i \in f.train, j \in f.test :
                Haversine(cv.coordinates[i], cv.coordinates[j]) >= cv.buffer_rad

\* a fold whose buffer removed a candidate and kept another
C1_Witness ==
    \E k \in DOMAIN cv.folds :
        /\ cv.folds[k].test # {}
        /\ cv.folds[k].train # {}
        /\ cv.folds[k].train \cup cv.folds[k].test # DOMAIN cv.coordinates
        /\ cv.buffer_rad > 0

\* C2: the train and test index sets of every yielded fold are disjoint,
\* folds with an empty test set and folds emptied by the buffer included.
C2_TrainTestDisjoint ==
    \A f \in Range(cv.folds) : f.train \cap f.test = {}

\* folds of the three kinds have been yielded: buffered, empty test, emptied
C2_Witness ==
    /\ \E f \in Range(cv.folds) : f.test # {} /\ f.train # {}
    /\ \E f \in Range(cv.folds) : f.test = {} \/ f.train = {}

C20_DegenerateFoldNotUsed ==
    \A f \in Range(cv.used) : f.train # {} /\ f.test # {}

(***************************************************************************)
(* SpatialClusteringPredictor (ClusterExpert)                              *)
(*                                                                         *)
(* eps_meters is in grid units.  A centroid, the mean latitude of a        *)
(* cluster, is the fraction <<sum, count>>; a distance is a fraction       *)
(* <<num, den>> of grid units.  A score is the pair <<num, den>> that       *)
(* stands for 2^(-num/den), in lowest terms: <<0, 1>> is 1.0, <<1, 1>> is  *)
(* 0.5, and <<1, 0>> (2 to the minus infinity) is 0.0.                     *)
(***************************************************************************)
MaxEps == 2
MaxMinSamples == 2
MaxQuery == 2

RECURSIVE Gcd(_, _)
Gcd(a, b) == IF b = 0 THEN a ELSE Gcd(b, a % b)

\* the fraction num/den in lowest terms (den > 0)
Frac(num, den) == LET g == Gcd(num, den) IN <<num \div g, den \div g>>

FracLess(x, y) == x[1] * y[2] < y[1] * x[2]

\* x + n for a fraction x and an integer n
FracPlus(x, n) == Frac(x[1] + n * x[2], x[2])

ZeroScore == <<1, 0>>

OneScore == <<0, 1>>

\* score x > score y: the smaller exponent, and everything above 0.0
ScoreGreater(x, y) ==
    IF x = ZeroScore THEN FALSE
    ELSE IF y = ZeroScore THEN TRUE
    ELSE FracLess(x, y)

\* the points within eps of point i, itself included (radius_neighbors)
Neighbors(coords, i, eps) ==
    {j \in DOMAIN coords : Haversine(coords[i], coords[j]) <= eps}

\* core samples: at least min_samples points in the eps-neighbourhood
CoreSamples(coords, eps, min_samples) ==
    {i \in DOMAIN coords : Cardinality(Neighbors(coords, i, eps)) >= min_samples}

RECURSIVE Expand(_, _, _, _)
\* the points a depth-first search from the core points in `reached` labels:
\* it continues through core points only
Expand(coords, eps, cores, reached) ==
    LET more == reached \cup
            UNION {Neighbors(coords, i, eps) : i \in reached \cap cores}
    IN  IF more = reached THEN reached ELSE Expand(coords, eps, cores, more)

RECURSIVE DbscanInner(_, _, _, _, _, _)
\* sklearn's dbscan_inner from point i on: an unlabelled core point starts
\* cluster label_num and labels every still unlabelled point it reaches
DbscanInner(coords, eps, cores, i, label_num, labels) ==
    IF i > Len(coords) THEN labels
    ELSE IF labels[i] # -1 \/ i \notin cores
         THEN DbscanInner(coords, eps, cores, i + 1, label_num, labels)
         ELSE LET reached == Expand(coords, eps, cores, {i})
                  next == [j \in DOMAIN coords |->
                             IF j \in reached /\ labels[j] = -1
                             THEN label_num ELSE labels[j]]
              IN  DbscanInner(coords, eps, cores, i + 1, label_num + 1, next)

\* DBSCAN(eps, min_samples, metric='haversine').fit_predict; -1 is noise
DbscanFitPredict(coords, eps, min_samples) ==
    DbscanInner(coords, eps, CoreSamples(coords, eps, min_samples), 1, 0,
                [j \in DOMAIN coords |-> -1])

RECURSIVE SumLat(_, _)
SumLat(coords, S) ==
    IF S = {} THEN 0
    ELSE LET i == Min(S) IN coords[i] + SumLat(coords, S \ {i})

\* np.mean(cluster_points, axis=0) for every label but -1
ClusterCentroids(coords, labels) ==
    LET ks == SortedSeq({labels[i] : i \in DOMAIN labels} \ {-1})
    IN  [n \in DOMAIN ks |->
            LET members == {i \in DOMAIN labels : labels[i] = ks[n]}
            IN  <<SumLat(coords, members), Cardinality(members)>>]

\* haversine distance from latitude q to a centroid
CentroidDistance(q, centroid) ==
    LET scaled == q * centroid[2]
    IN  Frac(Haversine(scaled, centroid[1]), centroid[2])

\* NearestNeighbors(n_neighbors=1).kneighbors: distance to the nearest centroid
NearestDistance(q, centroids) ==
    LET ds == {CentroidDistance(q, centroids[n]) : n \in DOMAIN centroids}
    IN  CHOOSE d \in ds : \A e \in ds : ~FracLess(e, d)

\* a mutant: the decay constant of the docstring, 1/eps_meters, not ln 2/eps_meters
\* (1/ln 2 is 1.4427)
DecayNoLn2(d, eps_meters) == Frac(d[1] * 14427, d[2] * eps_meters * 10000)

\* np.exp(-distances_meters * np.log(2) / eps_meters) = 2^(-d/eps_meters)
Decay(d, eps_meters) == Frac(d[1], d[2] * eps_meters)

\* a mutant: the base rate instead of zeroes
BaseRates(n) == [k \in 1 .. n |-> <<1, 1>>]

\* np.zeros(n)
Zeros(n) == [k \in 1 .. n |-> ZeroScore]

\* SpatialClusteringPredictor.predict_proba
SpPredictProbaOf(centroids, eps_meters, query) ==
    IF centroids = None \/ Len(centroids[1]) = 0
    THEN Zeros(Len(query))
    ELSE [k \in DOMAIN query |->
            Decay(NearestDistance(query[k], centroids[1]), eps_meters)]

\* SpatialClusteringPredictor(eps_meters, min_samples); the other objects do
\* not exist
SpInit ==
    /\ \E e \in 1 .. MaxEps, m \in 1 .. MaxMinSamples :
        sp = [eps_meters |-> e, min_samples |-> m,
              cluster_centroids |-> None, query |-> <<>>, probs |-> None]
    /\ cv = None
    /\ kde = None
    /\ ens = None
    /\ fc = None
    /\ fe = None
    /\ bp = None

\* train(coordinates_array): DBSCAN rejects an empty array.  train replaces
\* cluster_centroids whatever it was, so training again reaches no state that
\* one training does not reach: it is taken once, on the fresh predictor.
\* (self.labels is read by train alone and is not kept.)
SpTrain ==
    /\ sp.cluster_centroids = None
    /\ sp.probs = None
    /\ \E c \in CoordArrays(MaxPts) :
        LET l == DbscanFitPredict(c, sp.eps_meters, sp.min_samples)
        IN  sp' = [sp EXCEPT !.cluster_centroids = Some(ClusterCentroids(c, l)),
                             !.query = <<>>, !.probs = None]
    /\ UNCHANGED <<cv, kde, ens, fc, fe, bp>>

\* predict_proba(coordinates_array): it changes nothing of the predictor, so
\* the call whose result is recorded is taken once
SpPredictProba ==
    /\ sp.probs = None
    /\ \E q \in CoordArrays(MaxQuery) \cup {<<>>} :
        sp' = [sp EXCEPT
                 !.query = q,
                 !.probs = Some(SpPredictProbaOf(sp.cluster_centroids,
                                                 sp.eps_meters, q))]
    /\ UNCHANGED <<cv, kde, ens, fc, fe, bp>>

SpNext == SpTrain \/ SpPredictProba

SpecCluster == SpInit /\ [][SpNext]_vars

SpHasClusters ==
    sp.cluster_centroids # None /\ Len(sp.cluster_centroids[1]) > 0

SpDistance(k) == NearestDistance(sp.query[k], sp.cluster_centroids[1])

\* the scores the last predict_proba call returned
SpProbs == sp.probs[1]

\* C6: with at least one cluster the score is a function of the distance d to
\* the nearest centroid alone: 1 at d = 0, 0.5 at d = eps_meters, halved by
\* every further eps_meters, strictly decreasing in d, and always in (0,1].
C6_HalfLifeDecay ==
    (sp.probs # None /\ SpHasClusters) =>
        /\ Len(SpProbs) = Len(sp.query)
        /\ \A k \in DOMAIN sp.query :
            /\ SpProbs[k] # ZeroScore
            /\ SpProbs[k][1] >= 0 /\ SpProbs[k][2] > 0
            /\ SpDistance(k) = <<0, 1>> => SpProbs[k] = OneScore
            /\ SpDistance(k) = <<sp.eps_meters, 1>> => SpProbs[k] = <<1, 1>>
        /\ \A j, k \in DOMAIN sp.query :
            /\ SpDistance(j) = SpDistance(k) => SpProbs[j] = SpProbs[k]
            /\ FracLess(SpDistance(j), SpDistance(k))
                    => ScoreGreater(SpProbs[j], SpProbs[k])
            /\ SpDistance(k) = FracPlus(SpDistance(j), sp.eps_meters)
                    => SpProbs[k] = FracPlus(SpProbs[j], 1)

\* one query at a centroid of a two-point cluster's mean and one a half-life
\* farther, scored 1 and 0.5
C6_Witness ==
    /\ sp.probs # None /\ SpHasClusters
    /\ \E j, k \in DOMAIN sp.query :
        /\ SpDistance(j) = <<0, 1>>
        /\ SpDistance(k) = <<sp.eps_meters, 1>>
        /\ SpProbs[j] = OneScore /\ SpProbs[k] = <<1, 1>>

\* C7: without clusters (never trained, or trained on noise only) predict_proba
\* returns exactly 0 for every query coordinate, one value per query.
C7_NoClustersAllZero ==
    (sp.probs # None /\ ~SpHasClusters) =>
        /\ Len(SpProbs) = Len(sp.query)
        /\ \A k \in DOMAIN sp.query : SpProbs[k] = ZeroScore

\* trained on noise only, then queried
C7_Witness ==
    /\ sp.probs # None
    /\ sp.cluster_centroids # None /\ Len(sp.cluster_centroids[1]) = 0
    /\ Len(sp.query) > 1
    /\ \A k \in DOMAIN sp.query : SpProbs[k] = ZeroScore

(***************************************************************************)
(* KernelDensityEstimator (DensityExpert)                                  *)
(*                                                                         *)
(* The grid unit is the bandwidth times sqrt(2 ln(3/2)), about 0.9         *)
(* bandwidths, so that the Gaussian kernel exp(-d^2 / (2 h^2)) of a        *)
(* distance of d grid units is (2/3)^(d^2) exactly.  Densities are kept    *)
(* as integers, scaled by 3^(MaxLat^2) (the normalisation of score_samples *)
(* is one factor for all points and cancels in predict_proba).  A          *)
(* probability is the fraction <<num, den>>.                               *)
(***************************************************************************)
RECURSIVE Pow(_, _)
Pow(b, n) == IF n = 0 THEN 1 ELSE b * Pow(b, n - 1)

\* the Gaussian kernel at distance d, times 3^(MaxLat^2)
GaussianKernel(d) == Pow(2, d * d) * Pow(3, MaxLat * MaxLat - d * d)

RECURSIVE KernelSum(_, _, _)
KernelSum(train, q, n) ==
    IF n = 0 THEN 0
    ELSE GaussianKernel(Haversine(train[n], q)) + KernelSum(train, q, n - 1)

\* exp(self.kde.score_samples(q)), up to the common normalisation
Density(train, q) == KernelSum(train, q, Len(train))

\* exp(np.max(self.kde.score_samples(coords_rad))) on the training set itself
MaxTrainDensity(train) == Max({Density(train, train[i]) : i \in DOMAIN train})

\* KernelDensityEstimator.predict_proba
KdePredictProbaOf(fitted, max_log_density, query) ==
    IF max_log_density = None
    THEN [k \in DOMAIN query |-> <<0, 1>>]
    ELSE [k \in DOMAIN query |->
            Frac(Density(fitted[1], query[k]), max_log_density[1])]

\* KernelDensityEstimator(bandwidth_meters); the other objects do not exist
KdeInit ==
    /\ kde = [fitted |-> None, max_log_density |-> None,
              query |-> <<>>, probs |-> None]
    /\ cv = None
    /\ sp = None
    /\ ens = None
    /\ fc = None
    /\ fe = None
    /\ bp = None

\* train(coordinates_array): KernelDensity.fit rejects an empty array.  It
\* replaces the fit and max_log_density whatever they were; taken once.
KdeTrain ==
    /\ kde.max_log_density = None
    /\ kde.probs = None
    /\ \E c \in CoordArrays(MaxPts) :
        kde' = [kde EXCEPT !.fitted = Some(c),
                           !.max_log_density = Some(MaxTrainDensity(c))]
    /\ UNCHANGED <<cv, sp, ens, fc, fe, bp>>

\* predict_proba(coordinates_array): it changes nothing of the estimator, so
\* the call whose result is recorded is taken once
KdePredictProba ==
    /\ kde.probs = None
    /\ \E q \in CoordArrays(MaxQuery) \cup {<<>>} :
        kde' = [kde EXCEPT
                  !.query = q,
                  !.probs = Some(KdePredictProbaOf(kde.fitted,
                                                   kde.max_log_density, q))]
    /\ UNCHANGED <<cv, sp, ens, fc, fe, bp>>

KdeNext == KdeTrain \/ KdePredictProba

SpecKDE == KdeInit /\ [][KdeNext]_vars

\* the scores the last predict_proba call returned
KdeProbs == kde.probs[1]

\* C5: a trained DensityExpert returns a value in (0,1] for every query
\* coordinate, training point or not, and exactly 1.0 at the densest training
\* location.
C5_DensityInUnitInterval ==
    (kde.probs # None /\ kde.max_log_density # None) =>
        \A k \in DOMAIN kde.query :
            /\ KdeProbs[k][1] > 0
            /\ KdeProbs[k][1] <= KdeProbs[k][2]
            /\ (\E i \in DOMAIN kde.fitted[1] :
                    /\ kde.fitted[1][i] = kde.query[k]
                    /\ Density(kde.fitted[1], kde.query[k])
                            = kde.max_log_density[1])
                => KdeProbs[k] = <<1, 1>>

(***************************************************************************)
(* EnsemblePredictor                                                       *)
(*                                                                         *)
(* An expert held by the ensemble is "None" (models_dict has no such       *)
(* entry), "fresh" (constructed, never trained) or "trained".  Weights are *)
(* in hundredths, expert probabilities in units of 1/PScale, an ensemble   *)
(* probability in units of 1/(100 * PScale).  A row of a validation set   *)
(* is <<y, p_rf, p_spatial, p_kde>>: the label and what the three experts  *)
(* predict for the row; a query row is <<p_rf, p_spatial, p_kde>>.         *)
(***************************************************************************)
PScale == 2
MaxVal == 3

Experts == {"None", "fresh", "trained"}

\* what predict_proba of an expert in this state can return for one row: a
\* fresh SpatialClusteringPredictor or KernelDensityEstimator returns 0.0
ExpertScores(state, values) == IF state = "trained" THEN values ELSE {0}

\* np.arange(0, 1.1, 0.1)
Steps == [k \in 1 .. 11 |-> 10 * (k - 1)]

\* 1.0 - w_rf - w_sp < 0 as float64 computes it, w_rf and w_sp being the
\* doubles i * 0.1 of np.arange: off the edge w_rf + w_sp = 1 rounding never
\* changes the sign; on the edge the difference is 0.0 for (0, 1), (0.1, 0.9),
\* (0.2, 0.8), (0.5, 0.5), (1, 0) and between -1.2e-16 and -2.7e-17 for the six
\* other pairs, as 0.1 * 3, 0.1 * 6 and 0.1 * 7 round up to
\* 0.30000000000000004, 0.6000000000000001 and 0.7000000000000001 and
\* 1.0 - 0.8 and 1.0 - 0.9 round below 0.2 and 0.1.
WKdeNegative(w_rf, w_sp) ==
    \/ 100 - w_rf - w_sp < 0
    \/ <<w_rf, w_sp>> \in {<<30, 70>>, <<40, 60>>, <<60, 40>>, <<70, 30>>,
                           <<80, 20>>, <<90, 10>>}

\* a mutant: no constraint on w_kde
RejectedNever(w_rf, w_sp) == FALSE

\* w_kde < 0 or not np.isclose(w_rf + w_sp + w_kde, 1.0)
Rejected(w_rf, w_sp) ==
    LET w_kde == 100 - w_rf - w_sp
    IN  WKdeNegative(w_rf, w_sp) \/ w_rf + w_sp + w_kde # 100

\* (w_rf * p_rf) + (w_sp * p_spatial) + (w_kde * p_kde), row by row, as the
\* real number: float64 keeps the order of two sums that differ, the sums
\* being whole multiples of 0.01 / PScale up to one rounding each
PEnsemble(w, P) ==
    [i \in DOMAIN P |->
        w.rf * P[i][1] + w.spatial * P[i][2] + w.kde * P[i][3]]

\* rows r and s enter the weighted sum with the same operands, an expert of
\* weight 0.0 adding 0.0 for both: float64 gives the two the same p_ensemble
SameOperands(w, r, s) ==
    /\ w.rf = 0 \/ r[1] = s[1]
    /\ w.spatial = 0 \/ r[2] = s[2]
    /\ w.kde = 0 \/ r[3] = s[3]

\* the (positive, negative) pairs of rows
Pairs(y) == {i \in DOMAIN y : y[i] = 1} \X {i \in DOMAIN y : y[i] = 0}

\* roc_auc_score(y, p_ensemble) of a y with both classes, as the integer
\* 2 * n_pos * n_neg * AUC, at its lowest: a pair counts 2 when the positive
\* row scores higher and 1 when the two rows tie with the same operands
AucLow(y, w, P) ==
    LET p == PEnsemble(w, P)
    IN  2 * Cardinality({pr \in Pairs(y) : p[pr[1]] > p[pr[2]]})
          + Cardinality({pr \in Pairs(y) :
                            /\ p[pr[1]] = p[pr[2]]
                            /\ SameOperands(w, P[pr[1]], P[pr[2]])})

\* the pairs whose p_ensemble are equal as real numbers but summed from
\* different operands: float64 rounding decides which is higher, or neither
RoundingDecides(y, w, P) ==
    LET p == PEnsemble(w, P)
    IN  {pr \in Pairs(y) : /\ p[pr[1]] = p[pr[2]]
                           /\ ~SameOperands(w, P[pr[1]], P[pr[2]])}

AucHigh(y, w, P) == AucLow(y, w, P) + 2 * Cardinality(RoundingDecides(y, w, P))

OneClass(y) == \A i, j \in DOMAIN y : y[i] = y[j]

\* try: score = roc_auc_score(y_val, p_ensemble); except ValueError: score = 0
\* (roc_auc_score raises ValueError when y_val holds one class): the scores
\* the rounding of p_ensemble can lead to
Scores(y, w, P) ==
    IF OneClass(y) THEN {0} ELSE AucLow(y, w, P) .. AucHigh(y, w, P)

Weights(w_rf, w_sp) == [rf |-> w_rf, spatial |-> w_sp, kde |-> 100 - w_rf - w_sp]

\* a mutant: ties go to the later combination
BetterOrEqual(score, best_score) == score >= best_score

\* if score > best_score
Better(score, best_score) == score > best_score

\* the body of the inner loop for one (w_rf, w_sp): the
\* <<best_score, best_weights>> it can leave, entered with `best`
Try(w_rf, w_sp, y, P, best) ==
    IF Rejected(w_rf, w_sp) THEN {best}
    ELSE LET w == Weights(w_rf, w_sp)
         IN  {IF Better(score, best[1]) THEN <<score, w>> ELSE best :
                score \in Scores(y, w, P)}

RECURSIVE InnerLoop(_, _, _, _, _)
\* for w_sp in steps, from the j-th step on, entered with any of `bests` (the
\* two branches are one: the comparison has each iteration evaluated before
\* the next begins)
InnerLoop(w_rf, j, y, P, bests) ==
    IF j > Len(Steps) THEN bests
    ELSE LET b == UNION {Try(w_rf, Steps[j], y, P, best) : best \in bests}
         IN  IF b = bests THEN InnerLoop(w_rf, j + 1, y, P, bests)
             ELSE InnerLoop(w_rf, j + 1, y, P, b)

RECURSIVE GridSearch(_, _, _, _)
\* for w_rf in steps, from the i-th step on
GridSearch(i, y, P, bests) ==
    IF i > Len(Steps) THEN bests
    ELSE LET b == InnerLoop(Steps[i], 1, y, P, bests)
         IN  IF b = bests THEN GridSearch(i + 1, y, P, bests)
             ELSE GridSearch(i + 1, y, P, b)

Labels(val) == [i \in DOMAIN val |-> val[i][1]]

Predictions(val) == [i \in DOMAIN val |-> <<val[i][2], val[i][3], val[i][4]>>]

\* a mutant: best_score starts at 0
CalculateOptimalWeightsFromZero(weights, val) ==
    GridSearch(1, Labels(val), Predictions(val), {<<0, weights>>})

\* calculate_optimal_weights past the three predict_proba calls: best_score
\* starts at -1 and best_weights at self.weights; the
\* <<best_score, best_weights>> the loops can end with
CalculateOptimalWeights(weights, val) ==
    GridSearch(1, Labels(val), Predictions(val), {<<-1, weights>>})

\* the rows are listed in one order, ascending: calculate_optimal_weights does
\* not depend on the order of the rows
RowLeq(r, s) ==
    LET c(x) == x[1] * 1000 + x[2] * 100 + x[3] * 10 + x[4] IN c(r) <= c(s)

RECURSIVE AscendingRows(_, _)
\* the validation sets of exactly n rows drawn from `rows`
AscendingRows(rows, n) ==
    IF n = 0 THEN {<<>>}
    ELSE {Append(sr[1], sr[2]) :
            sr \in {x \in AscendingRows(rows, n - 1) \X rows :
                      x[1] = <<>> \/ RowLeq(x[1][Len(x[1])], x[2])}}

\* validation sets of 1 .. MaxVal rows; a trained expert scores a row 0.0 or 1.0
ValSets(rf_model, spatial_model, kde_model) ==
    LET rows == {0, 1} \X ExpertScores(rf_model, {0, PScale})
                       \X ExpertScores(spatial_model, {0, PScale})
                       \X ExpertScores(kde_model, {0, PScale})
    IN  UNION {AscendingRows(rows, n) : n \in 1 .. MaxVal}

NoCall == [op |-> "none", raised |-> FALSE, val |-> <<>>, best_score |-> -1,
           ret |-> None, query |-> <<>>, proba |-> <<>>, explanation |-> None]

\* EnsemblePredictor(models_dict), weights not given; the other objects do
\* not exist
EnsInit ==
    /\ \E r, s, k \in Experts :
        ens = [rf_model |-> r, spatial_model |-> s, kde_model |-> k,
               weights |-> [rf |-> 33, spatial |-> 33, kde |-> 34],
               optimized |-> FALSE, last |-> NoCall]
    /\ cv = None
    /\ sp = None
    /\ kde = None
    /\ fc = None
    /\ fe = None
    /\ bp = None

\* calculate_optimal_weights raises before it reads y_val: an expert is None
\* (AttributeError) or the random forest is not fitted (NotFittedError)
OptimizeRaises ==
    \/ ens.rf_model # "trained"
    \/ ens.spatial_model = "None"
    \/ ens.kde_model = "None"

\* calculate_optimal_weights(X_val, y_val, coords_val).  The first call takes
\* the validation set its caller holds, or else any; a call that follows a
\* call takes the same one again.
EnsCalculateOptimalWeights ==
    /\ ~ens.optimized \/ ens.last.op = "optimize"
    /\ ens.last.op \in {"none", "optimize"}
    /\ IF OptimizeRaises
       THEN ens' = [ens EXCEPT !.optimized = TRUE,
                               !.last = [NoCall EXCEPT !.op = "optimize",
                                                       !.raised = TRUE]]
       ELSE \E val \in IF ens.last.val # <<>> THEN {ens.last.val}
                       ELSE ValSets(ens.rf_model, ens.spatial_model,
                                    ens.kde_model) :
            \E best \in CalculateOptimalWeights(ens.weights, val) :
              ens' = [ens EXCEPT
                        !.weights = best[2],
                        !.optimized = TRUE,
                        !.last = [NoCall EXCEPT !.op = "optimize",
                                                !.val = val,
                                                !.best_score = best[1],
                                                !.ret = Some(best[2])]]
    /\ UNCHANGED <<cv, sp, kde, fc, fe, bp>>

\* the call has returned to its caller: its arguments and result are gone
EnsReturn ==
    /\ ens.last.op # "none"
    /\ ens' = [ens EXCEPT !.last = NoCall]
    /\ UNCHANGED <<cv, sp, kde, fc, fe, bp>>

\* the rows of a query: what each expert that is called predicts for them
QueryRows(values) ==
    ExpertScores(ens.rf_model, values)
        \X ExpertScores(ens.spatial_model, values)
        \X ExpertScores(ens.kde_model, values)

\* weights['rf'] * p_rf + weights['spatial'] * p_spatial + weights['kde'] * p_kde
WeightedSum(w, row) == w.rf * row[1] + w.spatial * row[2] + w.kde * row[3]

\* EnsemblePredictor.predict_proba past its guards: an expert that is None
\* counts np.zeros, which is what its column of the query rows holds
PredictProbaOf(w, query) == [i \in DOMAIN query |-> WeightedSum(w, query[i])]

\* predict_proba(X, coords): the pipeline of a random forest that was never
\* fitted raises NotFittedError
EnsPredictProba ==
    /\ ens.last.op = "none"
    /\ ens.last.val = <<>>
    /\ IF ens.rf_model = "fresh"
       THEN ens' = [ens EXCEPT !.last = [NoCall EXCEPT !.op = "predict",
                                                       !.raised = TRUE]]
       ELSE \E n \in 0 .. MaxQuery :
            \E query \in [1 .. n -> QueryRows({0, PScale})] :
              ens' = [ens EXCEPT
                        !.last = [NoCall EXCEPT
                                    !.op = "predict",
                                    !.query = query,
                                    !.proba = PredictProbaOf(ens.weights, query)]]
    /\ UNCHANGED <<cv, sp, kde, fc, fe, bp>>

\* a mutant: the density expert's contribution takes the cluster expert's weight
ContributionsSlip(w, row) ==
    [rf |-> [prediction |-> row[1], weight |-> w.rf,
             contribution |-> row[1] * w.rf],
     spatial |-> [prediction |-> row[2], weight |-> w.spatial,
                  contribution |-> row[2] * w.spatial],
     kde |-> [prediction |-> row[3], weight |-> w.kde,
              contribution |-> row[3] * w.spatial]]

\* the 'contributions' of explain_prediction_breakdown
Contributions(w, row) ==
    [rf |-> [prediction |-> row[1], weight |-> w.rf,
             contribution |-> row[1] * w.rf],
     spatial |-> [prediction |-> row[2], weight |-> w.spatial,
                  contribution |-> row[2] * w.spatial],
     kde |-> [prediction |-> row[3], weight |-> w.kde,
              contribution |-> row[3] * w.kde]]

\* explain_prediction_breakdown(X, coords), every expert present and fitted
ExplainPredictionBreakdown(w, row) ==
    [final_probability |-> WeightedSum(w, row),
     contributions |-> Contributions(w, row)]

\* explain_prediction_breakdown calls every expert without a guard: None
\* raises AttributeError, an unfitted random forest NotFittedError
ExplainRaises ==
    \/ ens.rf_model # "trained"
    \/ ens.spatial_model = "None"
    \/ ens.kde_model = "None"

\* LocationPredictor.predict_single_location, steps 3 and 4:
\* prob = ensemble.predict_proba(X, coords)[0], then
\* explanation = ensemble.explain_prediction_breakdown(X, coords)
EnsPredictSingle ==
    /\ ens.last.op = "none"
    /\ ens.last.val = <<>>
    /\ IF ens.rf_model = "fresh"
       THEN ens' = [ens EXCEPT !.last = [NoCall EXCEPT !.op = "single",
                                                       !.raised = TRUE]]
       ELSE \E row \in QueryRows(0 .. PScale) :
              ens' = [ens EXCEPT
                        !.last = [NoCall EXCEPT
                           !.op = "single",
                           !.query = <<row>>,
                           !.proba = PredictProbaOf(ens.weights, <<row>>),
                           !.raised = ExplainRaises,
                           !.explanation =
                              IF ExplainRaises THEN None
                              ELSE Some(ExplainPredictionBreakdown(ens.weights,
                                                                   row))]]
    /\ UNCHANGED <<cv, sp, kde, fc, fe, bp>>

EnsNext ==
    \/ EnsCalculateOptimalWeights
    \/ EnsPredictProba
    \/ EnsPredictSingle
    \/ EnsReturn

SpecEnsemble == EnsInit /\ [][EnsNext]_vars

\* rows of the validation sets of the grid-search specification
GridRows == 4

\* a fully trained ensemble whose caller holds a validation set of GridRows rows
GridInit ==
    /\ \E val \in AscendingRows({0, 1} \X {0, PScale} \X {0, PScale}
                                       \X {0, PScale}, GridRows) :
        ens = [rf_model |-> "trained", spatial_model |-> "trained",
               kde_model |-> "trained",
               weights |-> [rf |-> 33, spatial |-> 33, kde |-> 34],
               optimized |-> FALSE, last |-> [NoCall EXCEPT !.val = val]]
    /\ cv = None
    /\ sp = None
    /\ kde = None
    /\ fc = None
    /\ fe = None
    /\ bp = None

GridNext == EnsCalculateOptimalWeights \/ EnsReturn

\* calculate_optimal_weights as a function of its validation set
SpecGrid == GridInit /\ [][GridNext]_vars

ValidWeights(w) ==
    /\ w.rf \in 0 .. 100 /\ w.spatial \in 0 .. 100 /\ w.kde \in 0 .. 100
    /\ w.rf + w.spatial + w.kde = 100

\* C3: from construction with the default weights on, through every call of
\* calculate_optimal_weights, the held weights each lie in [0,1] and sum to 1,
\* and so does every value calculate_optimal_weights returns.
C3_WeightsOnSimplex ==
    /\ ValidWeights(ens.weights)
    /\ (ens.last.op = "optimize" /\ ens.last.ret # None)
            => ValidWeights(ens.last.ret[1])

\* an optimisation has replaced the default weights by a combination that
\* gives the density expert weight 0
C3_Witness ==
    /\ ens.last.op = "optimize" /\ ens.last.ret # None
    /\ ens.weights = ens.last.ret[1]
    /\ ens.weights.kde = 0
    /\ ens.weights.rf > 0 /\ ens.weights.spatial > 0

\* what the last explain_prediction_breakdown call returned
Explanation == ens.last.explanation[1]

\* C4: the three contributions explain_prediction_breakdown returns sum to its
\* final_probability, which is the value predict_proba returns for the query.
C4_ContributionsSumToFinal ==
    (ens.last.op = "single" /\ ens.last.explanation # None) =>
        /\ Explanation.contributions.rf.contribution
             + Explanation.contributions.spatial.contribution
             + Explanation.contributions.kde.contribution
                = Explanation.final_probability
        /\ Explanation.final_probability = ens.last.proba[1]

\* a query every expert scores above 0, explained under optimised weights that
\* are all above 0
C4_Witness ==
    /\ ens.last.op = "single" /\ ens.last.explanation # None
    /\ ens.optimized
    /\ \A i \in 1 .. 3 : ens.last.query[1][i] > 0
    /\ ens.weights.rf > 0 /\ ens.weights.spatial > 0 /\ ens.weights.kde > 0
    /\ ens.weights.spatial # ens.weights.kde

\* the combinations of the 0.1-step weight simplex, as <<w_rf, w_sp>>
Simplex ==
    {c \in Range(Steps) \X Range(Steps) : c[1] + c[2] <= 100}

\* the lowest validation score combination c can get on the last call's
\* validation set
ScoreOf(c) ==
    AucLow(Labels(ens.last.val), Weights(c[1], c[2]),
           Predictions(ens.last.val))

\* c comes no later than d in the enumeration, w_rf outer, w_sp inner
NoLater(c, d) == c[1] < d[1] \/ (c[1] = d[1] /\ c[2] <= d[2])

Returned == <<ens.last.ret[1].rf, ens.last.ret[1].spatial>>

\* C8: calculate_optimal_weights returns the combination of the 0.1-step
\* simplex with the highest validation ROC-AUC, the first enumerated one when
\* several tie: no combination of the simplex scores above the returned one
\* and none enumerated before it scores as high, whatever rounding decides.
C8_FirstArgmaxOnSimplex ==
    (ens.last.op = "optimize" /\ ens.last.ret # None
        /\ ~OneClass(Labels(ens.last.val))) =>
        /\ Returned \in Simplex
        /\ \A c \in Simplex :
              /\ ScoreOf(c) <= ens.last.best_score
              /\ (NoLater(c, Returned) /\ c # Returned)
                    => ScoreOf(c) < ens.last.best_score

\* the validation set holds both classes and the feature expert scores every
\* row exactly its label
PerfectFeatureExpert ==
    /\ ens.last.op = "optimize" /\ ens.last.ret # None
    /\ ~OneClass(Labels(ens.last.val))
    /\ \A i \in DOMAIN ens.last.val :
            ens.last.val[i][2] = PScale * ens.last.val[i][1]

\* the score that is AUC = 1.0: every (positive, negative) pair ranked right
AucOne == 2 * Cardinality(Pairs(Labels(ens.last.val)))

NoExpertTrained ==
    /\ ens.rf_model # "trained"
    /\ ens.spatial_model # "trained"
    /\ ens.kde_model # "trained"

\* C10: predict_proba with no expert trained ends in an explicit failure; it
\* never returns an all-zero probability vector.
C10_UntrainedPredictRaises ==
    (ens.last.op = "predict" /\ NoExpertTrained) => ens.last.raised

\* C22: with the density expert absent (models_dict['kde'] is None) and the
\* other two trained, calculate_optimal_weights completes without error and
\* returns weights that sum to 1.
C22_AbsentExpertOptimizes ==
    (/\ ens.last.op = "optimize"
     /\ ens.rf_model = "trained"
     /\ ens.spatial_model = "trained"
     /\ ens.kde_model = "None")
        => /\ ~ens.last.raised
           /\ ens.last.ret # None
           /\ ens.weights.rf + ens.weights.spatial + ens.weights.kde = 100

\* C29: when y_val holds a single class, calculate_optimal_weights does not
\* raise, every combination scores 0, and the weights of the ensemble become
\* those of the first enumerated combination, rf = 0, spatial = 0, kde = 1.
C29_OneClassTakesFirstCombination ==
    (/\ ens.last.op = "optimize"
     /\ ~OptimizeRaises
     /\ OneClass(Labels(ens.last.val)))
        => /\ ~ens.last.raised
           /\ ens.last.best_score = 0
           /\ ens.last.ret = Some([rf |-> 0, spatial |-> 0, kde |-> 100])
           /\ ens.weights = [rf |-> 0, spatial |-> 0, kde |-> 100]

\* the weights have been optimized on a validation set of MaxVal rows of one
\* class, on which the experts disagree
C29_Witness ==
    /\ ens.last.op = "optimize"
    /\ ~ens.last.raised
    /\ Len(ens.last.val) = MaxVal
    /\ OneClass(Labels(ens.last.val))
    /\ \E i, j \in DOMAIN ens.last.val :
          Predictions(ens.last.val)[i] # Predictions(ens.last.val)[j]
    /\ ens.weights = [rf |-> 0, spatial |-> 0, kde |-> 100]

(***************************************************************************)
(* Feature engineering service: FeatureValidator, FeatureCache,            *)
(* FeatureEngineering and BatchProcessor.                                  *)
(*                                                                         *)
(* A feature value is a record: kind "number" is a finite int or float     *)
(* whose value is num, "None", "nan" and "inf" are None, float('nan') and  *)
(* an infinite float, "str" is a string whose text is text.  A feature     *)
(* dict is a function from the names it holds to values.                   *)
(***************************************************************************)
MaxKeys == 2

Number(n) == [kind |-> "number", num |-> n, text |-> ""]

NoneValue == [kind |-> "None", num |-> 0, text |-> ""]

NaN == [kind |-> "nan", num |-> 0, text |-> ""]

Infinity == [kind |-> "inf", num |-> 0, text |-> ""]

Str(t) == [kind |-> "str", num |-> 0, text |-> t]

EmptyDict == [k \in {} |-> NoneValue]

\* {**a, **b}: the later dict wins
Merge(a, b) ==
    [k \in DOMAIN a \cup DOMAIN b |-> IF k \in DOMAIN b THEN b[k] ELSE a[k]]

\* FeatureEngineering.get_feature_names
FeatureNames ==
    <<"population_total", "median_age", "median_household_income",
      "poverty_rate", "vacancy_rate", "unemployment_rate",
      "percent_bachelors_degree", "median_home_value",
      "road_network_density", "intersection_density",
      "street_connectivity", "dead_end_count",
      "amenity_count_total", "grocery_store_count",
      "building_count_200m",
      "ndvi_mean", "ndbi_mean", "cloud_coverage",
      "vegetation_class", "canopy_abandonment_score_adj">>

\* the names the extractors write besides the declared ones, and the one
\* name of the validator's tables that no extractor writes
OtherNames ==
    {"average_street_length", "restaurant_count", "school_count",
     "error_osm", "distance_to_grocery_store"}

\* names a caller may pass that hold more than one of the substrings the
\* generic fallbacks look for
MixedNames == {"distance_count", "distance_rate"}

Names == Range(FeatureNames) \cup OtherNames \cup MixedNames

\* the `defaults` of impute_missing_values
Defaults ==
    [k \in {"population_total", "median_household_income", "vacancy_rate",
            "ndvi_mean", "road_network_density", "distance_to_grocery_store"}
        |-> CASE k = "population_total" -> Number(0)
              [] k = "median_household_income" -> Number(50000)
              [] k = "vacancy_rate" -> Number(10)
              [] k = "ndvi_mean" -> Number(0)
              [] k = "road_network_density" -> Number(0)
              [] k = "distance_to_grocery_store" -> Number(5000)]

\* 'count' in key
HasCount(key) ==
    key \in {"dead_end_count", "amenity_count_total", "grocery_store_count",
             "building_count_200m", "restaurant_count", "school_count",
             "distance_count"}

\* 'rate' in key or 'percent' in key
HasRateOrPercent(key) ==
    key \in {"poverty_rate", "vacancy_rate", "unemployment_rate",
             "percent_bachelors_degree", "distance_rate"}

\* 'distance' in key
HasDistance(key) ==
    key \in {"distance_to_grocery_store", "distance_count", "distance_rate"}

\* value is None or (isinstance(value, float) and np.isnan(value))
IsMissing(value) == value.kind \in {"None", "nan"}

\* a mutant: the generic fallbacks tried in another order
FallbackDistanceFirst(key) ==
    IF key \in DOMAIN Defaults THEN Defaults[key]
    ELSE IF HasDistance(key) THEN Number(9999)
    ELSE IF HasCount(key) THEN Number(0)
    ELSE IF HasRateOrPercent(key) THEN Number(0)
    ELSE Number(0)

\* what impute_missing_values puts in place of a missing value
Fallback(key) ==
    IF key \in DOMAIN Defaults THEN Defaults[key]
    ELSE IF HasCount(key) THEN Number(0)
    ELSE IF HasRateOrPercent(key) THEN Number(0)
    ELSE IF HasDistance(key) THEN Number(9999)
    ELSE Number(0)

\* FeatureValidator.impute_missing_values(features): the loop runs over the
\* names the dict holds
ImputeMissingValues(features) ==
    [key \in DOMAIN features |->
        IF IsMissing(features[key]) THEN Fallback(key) ELSE features[key]]

\* the values a raw feature can hold
RawValues == {Number(1), NoneValue, NaN, Infinity}

RECURSIVE KeySets(_)
\* the sets of at most n names
KeySets(n) ==
    IF n = 0 THEN {{}}
    ELSE LET smaller == KeySets(n - 1)
         IN  smaller \cup {S \cup {k} : S \in smaller, k \in Names}

\* the raw feature dicts of at most MaxKeys names
RawDicts == UNION {[D -> RawValues] : D \in KeySets(MaxKeys)}

\* a FeatureValidator and the raw dict its caller holds; the other objects
\* do not exist
ImputeInit ==
    /\ \E features \in RawDicts :
        fe = [features |-> features, cleaned |-> None]
    /\ cv = None
    /\ sp = None
    /\ kde = None
    /\ ens = None
    /\ fc = None
    /\ bp = None

\* cleaned = validator.impute_missing_values(features)
ValImputeMissingValues ==
    /\ fe.cleaned = None
    /\ fe' = [fe EXCEPT !.cleaned = Some(ImputeMissingValues(fe.features))]
    /\ UNCHANGED <<cv, sp, kde, ens, fc, bp>>

ImputeNext == ValImputeMissingValues

SpecImpute == ImputeInit /\ [][ImputeNext]_vars

IsFinite(value) == value.kind = "number"

\* C11: impute_missing_values returns a dict in which every name of the
\* declared schema is present with a finite value, whatever the raw dict holds
\* or lacks.
C11_EverySchemaNameFinite ==
    fe.cleaned # None =>
        \A name \in Range(FeatureNames) :
            /\ name \in DOMAIN fe.cleaned[1]
            /\ IsFinite(fe.cleaned[1][name])

\* C26: every None/NaN entry is replaced by its tabled default when the name
\* is in the defaults table, otherwise by the first matching fallback in the
\* order 'count' -> 0, 'rate' or 'percent' -> 0.0, 'distance' -> 9999.0,
\* else 0.0; every other entry keeps its value, and no name is added or lost.
C26_DefaultsThenFallbacks ==
    fe.cleaned # None =>
        /\ DOMAIN fe.cleaned[1] = DOMAIN fe.features
        /\ \A key \in DOMAIN fe.features :
            LET value == fe.features[key]
                cleaned == fe.cleaned[1][key]
            IN  IF value.kind \notin {"None", "nan"} THEN cleaned = value
                ELSE CASE key = "population_total" -> cleaned = Number(0)
                       [] key = "median_household_income" ->
                            cleaned = Number(50000)
                       [] key = "vacancy_rate" -> cleaned = Number(10)
                       [] key = "ndvi_mean" -> cleaned = Number(0)
                       [] key = "road_network_density" -> cleaned = Number(0)
                       [] key = "distance_to_grocery_store" ->
                            cleaned = Number(5000)
                       [] OTHER ->
                            IF HasCount(key) THEN cleaned = Number(0)
                            ELSE IF HasRateOrPercent(key)
                                 THEN cleaned = Number(0)
                            ELSE IF HasDistance(key)
                                 THEN cleaned = Number(9999)
                            ELSE cleaned = Number(0)

\* a dict has been cleaned that held a missing tabled name next to a missing
\* name with both 'distance' and 'count' in it
C26_Witness ==
    /\ fe.cleaned # None
    /\ DOMAIN fe.features = {"vacancy_rate", "distance_count"}
    /\ fe.features["vacancy_rate"] = NaN
    /\ fe.features["distance_count"] = NoneValue
    /\ fe.cleaned[1]["vacancy_rate"] = Number(10)
    /\ fe.cleaned[1]["distance_count"] = Number(0)

(***************************************************************************)
(* FeatureValidator.validate_feature_vector.  The two lists of strings and *)
(* the list of keys of the report are sets here: a dict holds a key once   *)
(* and a value is never both below and above its bounds, so no entry       *)
(* repeats; their order is the dict's order and is not modelled.           *)
(***************************************************************************)
\* self.feature_bounds: (min, max), None for no bound
FeatureBounds ==
    [k \in {"vacancy_rate", "poverty_rate", "unemployment_rate",
            "percent_bachelors_degree", "ndvi_mean", "ndbi_mean",
            "ndwi_mean", "median_household_income", "population_total",
            "distance_to_grocery_store"}
        |-> CASE k \in {"vacancy_rate", "poverty_rate", "unemployment_rate",
                        "percent_bachelors_degree"}
                   -> [min_val |-> Some(0), max_val |-> Some(100)]
              [] k \in {"ndvi_mean", "ndbi_mean", "ndwi_mean"}
                   -> [min_val |-> Some(-1), max_val |-> Some(1)]
              [] k = "median_household_income"
                   -> [min_val |-> Some(0), max_val |-> Some(1000000)]
              [] OTHER -> [min_val |-> Some(0), max_val |-> None]]

\* a mutant: the lower bound itself is rejected
BelowOrAt(value, min_val) ==
    value.kind = "number" /\ value.num <= min_val

\* value < min_val for a number, NaN or inf
Below(value, min_val) ==
    value.kind = "number" /\ value.num < min_val

\* value > max_val for a number, NaN or inf
Above(value, max_val) ==
    \/ value.kind = "inf"
    \/ value.kind = "number" /\ value.num > max_val

\* the keys the bounds loop looks at
Bounded(features) ==
    {key \in DOMAIN features :
        key \in DOMAIN FeatureBounds /\ features[key].kind # "None"}

TooLow(features) ==
    {key \in Bounded(features) :
        /\ FeatureBounds[key].min_val # None
        /\ Below(features[key], FeatureBounds[key].min_val[1])}

TooHigh(features) ==
    {key \in Bounded(features) :
        /\ FeatureBounds[key].max_val # None
        /\ Above(features[key], FeatureBounds[key].max_val[1])}

\* FeatureValidator.validate_feature_vector(features): a str or an object
\* under a bounded key makes the comparison raise TypeError
ValidateFeatureVector(features) ==
    LET missing == {key \in DOMAIN features : IsMissing(features[key])}
    IN  IF \E key \in Bounded(features) :
              features[key].kind \in {"str", "object"}
        THEN [raised |-> TRUE, is_valid |-> FALSE, flags |-> {},
              missing_keys |-> {}, out_of_bounds |-> {}]
        ELSE [raised |-> FALSE,
              is_valid |-> missing = {} /\ TooLow(features) = {}
                           /\ TooHigh(features) = {},
              flags |-> {<<"Missing value for", key>> : key \in missing}
                        \cup {<<"too low", key>> : key \in TooLow(features)}
                        \cup {<<"too high", key>> :
                                 key \in TooHigh(features)},
              missing_keys |-> missing,
              out_of_bounds |-> {<<key, "<">> : key \in TooLow(features)}
                                \cup {<<key, ">">> :
                                         key \in TooHigh(features)}]

\* the names of the vectors handed to the validator: the bounded names, a
\* numeric name without bounds and the name of the string label
CheckedNames == DOMAIN FeatureBounds \cup {"median_age", "vegetation_class"}

\* the values a name can hold: numbers on, inside and outside the bounds,
\* None, NaN, inf, and a string under the label's name
CheckedValues(key) ==
    {Number(-2), Number(0), Number(1), Number(101), Number(1000001),
     NoneValue, NaN, Infinity}
    \cup (IF key = "vegetation_class" THEN {Str("sparse")} ELSE {})

RECURSIVE CheckedKeySets(_)
\* the sets of at most n checked names
CheckedKeySets(n) ==
    IF n = 0 THEN {{}}
    ELSE LET smaller == CheckedKeySets(n - 1)
         IN  smaller \cup {S \cup {k} : S \in smaller, k \in CheckedNames}

\* the vectors of at most MaxKeys names: functions over a set of names
CheckedDicts ==
    UNION {{f \in [D -> UNION {CheckedValues(k) : k \in D}] :
              \A k \in D : f[k] \in CheckedValues(k)} :
           D \in CheckedKeySets(MaxKeys)}

\* a FeatureValidator and the vector its caller holds; the other objects
\* do not exist
ValidateInit ==
    /\ \E features \in CheckedDicts :
        fe = [given |-> features, features |-> features, report |-> None]
    /\ cv = None
    /\ sp = None
    /\ kde = None
    /\ ens = None
    /\ fc = None
    /\ bp = None

\* report = validator.validate_feature_vector(features); the function
\* assigns to the report only
ValValidateFeatureVector ==
    /\ fe.report = None
    /\ fe' = [fe EXCEPT !.report = Some(ValidateFeatureVector(fe.features))]
    /\ UNCHANGED <<cv, sp, kde, ens, fc, bp>>

ValidateNext == ValValidateFeatureVector

SpecValidate == ValidateInit /\ [][ValidateNext]_vars

\* value is outside the inclusive bounds the table gives for key
OutsideBounds(key, value) ==
    /\ key \in DOMAIN FeatureBounds
    /\ \/ value.kind = "number" /\ FeatureBounds[key].min_val # None
          /\ value.num < FeatureBounds[key].min_val[1]
       \/ value.kind = "number" /\ FeatureBounds[key].max_val # None
          /\ value.num > FeatureBounds[key].max_val[1]
       \/ value.kind = "inf" /\ FeatureBounds[key].max_val # None

\* C23: the report says is_valid = False exactly when a key holds None/NaN
\* (the key is then in missing_keys) or a value outside its inclusive bounds
\* (the key is then in out_of_bounds); otherwise is_valid = True and flags,
\* missing_keys and out_of_bounds are empty; the vector is not modified.
C23_ValidExactlyWhenClean ==
    fe.report # None =>
        LET report == fe.report[1]
            missing == {key \in DOMAIN fe.given :
                          fe.given[key].kind \in {"None", "nan"}}
            outside == {key \in DOMAIN fe.given :
                          OutsideBounds(key, fe.given[key])}
        IN  /\ ~report.raised
            /\ report.is_valid <=> (missing = {} /\ outside = {})
            /\ report.missing_keys = missing
            /\ {e[1] : e \in report.out_of_bounds} = outside
            /\ report.is_valid =>
                  /\ report.flags = {}
                  /\ report.missing_keys = {}
                  /\ report.out_of_bounds = {}
            /\ fe.features = fe.given

\* a vector has been validated that holds a value on its lower bound next
\* to a value above its upper bound
C23_Witness ==
    /\ fe.report # None
    /\ DOMAIN fe.given = {"population_total", "vacancy_rate"}
    /\ fe.given["population_total"] = Number(0)
    /\ fe.given["vacancy_rate"] = Number(101)
    /\ ~fe.report[1].is_valid
    /\ fe.report[1].out_of_bounds = {<<"vacancy_rate", ">">>}

(***************************************************************************)
(* FeatureCache.  A coordinate is a whole number of thirds of 0.00001      *)
(* degree, so that none lies halfway between two 5-decimal values.  A      *)
(* float is its sign bit and its magnitude, here in units of 0.00001.      *)
(***************************************************************************)
MaxCoord == 2

Coords == -MaxCoord .. MaxCoord

Abs(x) == IF x < 0 THEN -x ELSE x

\* round(x, 5): the nearest 5-decimal value, the sign of x kept when the
\* result is zero (round(-0.000003, 5) is -0.0)
Round5(c) == [neg |-> c < 0, mag |-> (Abs(c) + 1) \div 3]

\* == on floats: -0.0 == 0.0
FloatEq(a, b) == a.mag = b.mag /\ (a.mag = 0 \/ a.neg = b.neg)

\* the text of a float in an f-string: '-0.0' and '0.0' are two texts
Repr(f) == <<IF f.neg THEN "-" ELSE "", f.mag>>

\* FeatureCache.cache_key_for_location: the fields of
\* f"features:{feature_type}:{lat_rounded}:{lon_rounded}:{radius}"
CacheKeyForLocation(latitude, longitude, feature_type, radius) ==
    LET lat_rounded == Round5(latitude)
        lon_rounded == Round5(longitude)
    IN  <<"features", feature_type, Repr(lat_rounded), Repr(lon_rounded),
          radius>>

FeatureTypes == {"all_features", "census"}

Radii == {200, 500}

Queries ==
    [latitude : Coords, longitude : Coords, feature_type : FeatureTypes,
     radius : Radii]

\* a FeatureCache whose caller holds two queries; the other objects do not
\* exist
KeyInit ==
    /\ \E q1, q2 \in Queries : fc = [queries |-> <<q1, q2>>, keys |-> <<>>]
    /\ cv = None
    /\ sp = None
    /\ kde = None
    /\ ens = None
    /\ fe = None
    /\ bp = None

\* cache.cache_key_for_location(...) for the caller's next query
FcCacheKeyForLocation ==
    /\ Len(fc.keys) < Len(fc.queries)
    /\ LET q == fc.queries[Len(fc.keys) + 1]
       IN  fc' = [fc EXCEPT !.keys =
                     Append(@, CacheKeyForLocation(q.latitude, q.longitude,
                                                   q.feature_type, q.radius))]
    /\ UNCHANGED <<cv, sp, kde, ens, fe, bp>>

KeyNext == FcCacheKeyForLocation

SpecKey == KeyInit /\ [][KeyNext]_vars

\* the two queries round to the same 5-decimal coordinates
SameRounded(q1, q2) ==
    /\ FloatEq(Round5(q1.latitude), Round5(q2.latitude))
    /\ FloatEq(Round5(q1.longitude), Round5(q2.longitude))

\* C13: two queries whose coordinates round to the same 5-decimal values,
\* with the same feature_type and radius, get the same key, and two queries
\* that differ in a rounded coordinate get different keys.
C13_KeyOfRoundedCoordinates ==
    Len(fc.keys) = 2 =>
        LET q1 == fc.queries[1]
            q2 == fc.queries[2]
        IN  /\ (/\ SameRounded(q1, q2)
                /\ q1.feature_type = q2.feature_type
                /\ q1.radius = q2.radius) => fc.keys[1] = fc.keys[2]
            /\ ~SameRounded(q1, q2) => fc.keys[1] # fc.keys[2]

(***************************************************************************)
(* FeatureCache over its Redis backend.  The store maps a key to the JSON  *)
(* text set under it and the expiration it was set with.  A call meets the *)
(* backend as it is during that call: `fault` tells whether a Redis        *)
(* command of the call raises.                                             *)
(***************************************************************************)
\* a value json.dumps has no encoding for (a set, a numpy integer, ...)
Object == [kind |-> "object", num |-> 0, text |-> ""]

\* json.dumps of one value, NaN and Infinity being written as such
JsonOf(value) ==
    [token |-> CASE value.kind = "number" -> "number"
                 [] value.kind = "None" -> "null"
                 [] value.kind = "nan" -> "NaN"
                 [] value.kind = "inf" -> "Infinity"
                 [] value.kind = "str" -> "string",
     num |-> value.num, text |-> value.text]

\* json.loads of one value
ValueOf(json) ==
    [kind |-> CASE json.token = "number" -> "number"
                [] json.token = "null" -> "None"
                [] json.token = "NaN" -> "nan"
                [] json.token = "Infinity" -> "inf"
                [] json.token = "string" -> "str",
     num |-> json.num, text |-> json.text]

\* json.dumps(features) raises TypeError
DumpsRaises(features) == \E k \in DOMAIN features : features[k].kind = "object"

\* json.dumps(features)
Dumps(features) == [k \in DOMAIN features |-> JsonOf(features[k])]

\* json.loads(data)
Loads(data) == [k \in DOMAIN data |-> ValueOf(data[k])]

\* ttl_seconds of cache_features when the caller gives none
DayTtl == 86400

\* ttl_seconds=86400 * 7 of extract_features_for_location
WeekTtl == 86400 * 7

\* the Redis commands of a call go through, or the backend refuses the
\* connection, or does not answer in time
Faults == {"none", "ConnectionError", "TimeoutError"}

\* redis.ConnectionError, the one exception __init__ catches
IsConnectionError(fault) == fault = "ConnectionError"

\* get_cached_features(cache_key) of cache c: a miss returns None
GetCachedFeatures(c, cache_key, fault) ==
    IF ~c.enabled THEN [raised |-> FALSE, ret |-> None]
    ELSE IF fault # "none" THEN [raised |-> FALSE, ret |-> None]
    ELSE IF cache_key \in DOMAIN c.store
         THEN [raised |-> FALSE, ret |-> Some(Loads(c.store[cache_key].data))]
         ELSE [raised |-> FALSE, ret |-> None]

\* a mutant: the value is written field by field into the entry the key
\* holds, the fields it does not name staying as they were
SetexFieldwise(store, name, time, value) ==
    [k \in DOMAIN store \cup {name} |->
        IF k = name
        THEN [data |-> IF name \in DOMAIN store
                       THEN [f \in DOMAIN store[name].data \cup DOMAIN value |->
                               IF f \in DOMAIN value THEN value[f]
                               ELSE store[name].data[f]]
                       ELSE value,
              ttl |-> time]
        ELSE store[k]]

\* redis_client.setex(name, time, value): one command, which replaces
\* whatever the key held
Setex(store, name, time, value) ==
    [k \in DOMAIN store \cup {name} |->
        IF k = name THEN [data |-> value, ttl |-> time] ELSE store[k]]

\* a mutant: the write reaches the store although the call reports a failure
CacheFeaturesLeaky(c, cache_key, features, ttl_seconds, fault) ==
    IF ~c.enabled THEN [raised |-> FALSE, ret |-> FALSE, store |-> c.store]
    ELSE IF DumpsRaises(features)
    THEN [raised |-> FALSE, ret |-> FALSE, store |-> c.store]
    ELSE [raised |-> FALSE, ret |-> fault = "none",
          store |-> [k \in DOMAIN c.store \cup {cache_key} |->
                       IF k = cache_key
                       THEN [data |-> Dumps(features), ttl |-> ttl_seconds]
                       ELSE c.store[k]]]

\* cache_features(cache_key, features, ttl_seconds) of cache c
CacheFeatures(c, cache_key, features, ttl_seconds, fault) ==
    IF ~c.enabled THEN [raised |-> FALSE, ret |-> FALSE, store |-> c.store]
    ELSE IF DumpsRaises(features) \/ fault # "none"
    THEN [raised |-> FALSE, ret |-> FALSE, store |-> c.store]
    ELSE [raised |-> FALSE, ret |-> TRUE,
          store |-> Setex(c.store, cache_key, ttl_seconds, Dumps(features))]

\* keys matching "features:*"
Matching(store) == {k \in DOMAIN store : k[1] = "features"}

\* clear_cache() of cache c: redis_client.keys and redis_client.delete are
\* called outside any try
ClearCache(c, fault) ==
    IF ~c.enabled THEN [raised |-> FALSE, store |-> c.store]
    ELSE IF fault # "none" THEN [raised |-> TRUE, store |-> c.store]
    ELSE [raised |-> FALSE,
          store |-> [k \in DOMAIN c.store \ Matching(c.store) |-> c.store[k]]]

\* the keys of two bins
CacheKeys ==
    {CacheKeyForLocation(c, 0, "all_features", 500) : c \in {0, MaxCoord}}

\* the feature dicts a caller stores
CacheDicts ==
    {EmptyDict} \cup
    {[k \in {"ndvi_mean"} |-> v] : v \in RawValues \cup {Object}}

EmptyStore == [k \in {} |-> [data |-> EmptyDict, ttl |-> 0]]

\* FeatureCache(host, port, db): ping() goes through, or raises
\* ConnectionError, which __init__ catches, or raises TimeoutError, which it
\* does not; the other objects do not exist
FcInit ==
    /\ \E ping \in Faults :
        fc = [constructed |-> ping = "none" \/ IsConnectionError(ping),
              enabled |-> ping = "none",
              store |-> EmptyStore,
              last |-> [op |-> "init", fault |-> ping,
                        raised |-> ~(ping = "none" \/ IsConnectionError(ping)),
                        cache_key |-> <<>>, features |-> EmptyDict,
                        ret |-> None]]
    /\ cv = None
    /\ sp = None
    /\ kde = None
    /\ ens = None
    /\ fe = None
    /\ bp = None

FcGetCachedFeatures ==
    /\ fc.constructed
    /\ \E cache_key \in CacheKeys, fault \in Faults :
        LET r == GetCachedFeatures(fc, cache_key, fault)
        IN  fc' = [fc EXCEPT !.last = [op |-> "get", fault |-> fault,
                                       raised |-> r.raised,
                                       cache_key |-> cache_key,
                                       features |-> EmptyDict,
                                       ret |-> r.ret]]
    /\ UNCHANGED <<cv, sp, kde, ens, fe, bp>>

FcCacheFeatures ==
    /\ fc.constructed
    /\ \E cache_key \in CacheKeys, features \in CacheDicts,
          ttl_seconds \in {DayTtl, WeekTtl}, fault \in Faults :
        LET r == CacheFeatures(fc, cache_key, features, ttl_seconds, fault)
        IN  fc' = [fc EXCEPT !.store = r.store,
                             !.last = [op |-> "set", fault |-> fault,
                                       raised |-> r.raised,
                                       cache_key |-> cache_key,
                                       features |-> features,
                                       ret |-> Some(r.ret)]]
    /\ UNCHANGED <<cv, sp, kde, ens, fe, bp>>

FcClearCache ==
    /\ fc.constructed
    /\ \E fault \in Faults :
        LET r == ClearCache(fc, fault)
        IN  fc' = [fc EXCEPT !.store = r.store,
                             !.last = [op |-> "clear", fault |-> fault,
                                       raised |-> r.raised,
                                       cache_key |-> <<>>,
                                       features |-> EmptyDict,
                                       ret |-> None]]
    /\ UNCHANGED <<cv, sp, kde, ens, fe, bp>>

FcNext == FcGetCachedFeatures \/ FcCacheFeatures \/ FcClearCache

SpecCache == FcInit /\ [][FcNext]_vars

\* the call that has just returned met a disabled or failing backend
Degraded(c) == ~c.enabled \/ c.last.fault # "none"

\* C14: when the backend is disabled or fails during the call,
\* get_cached_features returns None and cache_features returns False, neither
\* raises, and a write that returns False leaves the stored entries as they
\* were.
C14_DegradedGetAndSet ==
    [][/\ (fc'.last.op = "get" /\ Degraded(fc'))
            => (~fc'.last.raised /\ fc'.last.ret = None)
       /\ (fc'.last.op = "set" /\ Degraded(fc'))
            => (~fc'.last.raised /\ fc'.last.ret = Some(FALSE))
       /\ (fc'.last.op = "set" /\ fc'.last.ret = Some(FALSE))
            => fc'.store = fc.store]_vars

\* a write fails on a backend that holds an entry under the same key
C14_Witness ==
    /\ fc.last.op = "set" /\ fc.enabled /\ fc.last.fault = "TimeoutError"
    /\ fc.last.ret = Some(FALSE)
    /\ fc.last.cache_key \in DOMAIN fc.store
    /\ fc.store[fc.last.cache_key].data # Dumps(fc.last.features)

\* C15: no FeatureCache operation, construction included, raises to its
\* caller, whatever the backend does.
C15_NoFaultSurfaces == ~fc.last.raised

(***************************************************************************)
(* FeatureEngineering.extract_features_for_location and the extractors.    *)
(* ndvi_mean and canopy_abandonment_score_adj are in hundredths; the other *)
(* numbers an extractor returns are finite and stand as 1.                 *)
(***************************************************************************)
\* CensusExtractor.extract_features: {} without a connection, else the
\* metrics of _calculate_derived_metrics
CensusExtract(conn) ==
    IF ~conn THEN EmptyDict
    ELSE [k \in {"population_total", "median_household_income",
                 "median_home_value", "median_age", "vacancy_rate",
                 "poverty_rate", "unemployment_rate",
                 "percent_bachelors_degree"} |-> Number(1)]

\* where OSMExtractor.extract_features can raise inside its try: downloading
\* the graph, downloading the points of interest, or nowhere
OsmOutcomes == {"graph_error", "poi_error", "ok"}

\* OSMExtractor.extract_features: what was written before the exception, and
\* the exception's text under 'error_osm'
OsmExtract(outcome) ==
    LET network == [k \in {"road_network_density", "intersection_density",
                           "average_street_length", "dead_end_count",
                           "street_connectivity"} |-> Number(1)]
        pois == [k \in {"amenity_count_total", "restaurant_count",
                        "school_count", "grocery_store_count",
                        "building_count_200m"} |-> Number(1)]
        error == [k \in {"error_osm"} |-> Str("error")]
    IN  CASE outcome = "graph_error" -> error
          [] outcome = "poi_error" -> Merge(network, error)
          [] outcome = "ok" -> Merge(network, pois)

\* SatelliteExtractor.extract_features: all None when disabled, else the
\* clear pixel it simulates
SatExtract(enabled) ==
    IF ~enabled
    THEN [k \in {"ndvi_mean", "ndbi_mean", "cloud_coverage"} |-> NoneValue]
    ELSE [k \in {"ndvi_mean", "ndbi_mean", "cloud_coverage"} |->
            CASE k = "ndvi_mean" -> Number(45)
              [] k = "ndbi_mean" -> Number(-12)
              [] k = "cloud_coverage" -> Number(5)]

\* CanopyMask.classify_vegetation(ndvi_mean, neighborhood_stats), with
\* canopy_threshold 0.5; z_score > 2.0 is ndvi - mean > 2 * std in hundredths
ClassifyVegetation(ndvi_mean, mean_ndvi, std_ndvi) ==
    IF ndvi_mean < 20 THEN "none"
    ELSE IF ndvi_mean < 40 THEN "sparse"
    ELSE IF ndvi_mean - mean_ndvi > 2 * std_ndvi THEN "overgrowth"
    ELSE IF ndvi_mean > 50 THEN "maintained_canopy"
    ELSE "sparse"

\* CanopyMask.adjust_abandonment_score(1.0, canopy_classification)
AdjustAbandonmentScore(canopy_classification) ==
    IF canopy_classification = "overgrowth" THEN Min({100, 120})
    ELSE IF canopy_classification = "maintained_canopy" THEN 80
    ELSE 100

\* step D of extract_features_for_location: sat_data.get('ndvi_mean', 0.0)
\* or 0.0 is classified against itself as the neighbourhood mean
FilterData(sat_data) ==
    LET ndvi == IF sat_data["ndvi_mean"].kind = "number"
                THEN sat_data["ndvi_mean"].num ELSE 0
        veg_class == ClassifyVegetation(ndvi, ndvi, 10)
    IN  [k \in {"vegetation_class", "canopy_abandonment_score_adj"} |->
            IF k = "vegetation_class" THEN Str(veg_class)
            ELSE Number(AdjustAbandonmentScore(veg_class))]

\* steps 2 to 4 of extract_features_for_location: extract, aggregate, impute
ExtractFresh(census_conn, osm_outcome, satellite_enabled) ==
    LET census_data == CensusExtract(census_conn)
        osm_data == OsmExtract(osm_outcome)
        sat_data == SatExtract(satellite_enabled)
        filter_data == FilterData(sat_data)
    IN  ImputeMissingValues(
            Merge(Merge(Merge(census_data, osm_data), sat_data), filter_data))

\* `if cached:` a dict that is not None and not empty
Truthy(cached) == cached # None /\ DOMAIN cached[1] # {}

\* the latitudes of the locations asked for: the first two fall in one bin
Latitudes == {0, 1, MaxCoord}

\* the three extractors of a FeatureEngineering object
Extractors == {"census", "osm", "satellite"}

\* `reads` and `writes` count the calls of get_cached_features and of
\* cache_features a call made, `get_fault` and `set_fault` are what the
\* backend did to them, `calls` counts the calls of each extractor and
\* `before` is the store as the call found it
NoExtract ==
    [op |-> "none", latitude |-> 0, longitude |-> 0, use_cache |-> FALSE,
     hit |-> FALSE, ret |-> EmptyDict, reads |-> 0, writes |-> 0,
     get_fault |-> "none", set_fault |-> "none",
     calls |-> [e \in Extractors |-> 0], before |-> EmptyStore]

\* a mutant: the result is cached whatever use_cache says
WriteBackAlways(use_cache, c, written) == written.store

\* step 5 of extract_features_for_location: `if use_cache:` guards the one
\* call of cache_features; the store after the call
WriteBack(use_cache, c, written) ==
    IF use_cache THEN written.store ELSE c.store

\* FeatureEngineering(): its cache connected or disabled, the census
\* connection made or failed, the satellite extractor enabled or not; the
\* model objects do not exist
FeInit ==
    /\ \E ping \in {"none", "ConnectionError"} :
        fc = [constructed |-> TRUE,
              enabled |-> ping = "none",
              store |-> EmptyStore,
              last |-> [op |-> "init", fault |-> ping, raised |-> FALSE,
                        cache_key |-> <<>>, features |-> EmptyDict,
                        ret |-> None]]
    /\ \E conn, enabled \in BOOLEAN :
        fe = [census_conn |-> conn, satellite_enabled |-> enabled,
              last |-> NoExtract]
    /\ cv = None
    /\ sp = None
    /\ kde = None
    /\ ens = None
    /\ bp = None

\* extract_features_for_location(latitude, longitude, 500, use_cache)
FeExtractFeaturesForLocation ==
    \E latitude \in Latitudes, longitude \in {0}, use_cache \in BOOLEAN,
       osm_outcome \in OsmOutcomes,
       get_fault, set_fault \in {"none", "ConnectionError"} :
      LET cache_key == CacheKeyForLocation(latitude, longitude,
                                           "all_features", 500)
          cached == IF use_cache
                    THEN GetCachedFeatures(fc, cache_key, get_fault).ret
                    ELSE None
          features == ExtractFresh(fe.census_conn, osm_outcome,
                                   fe.satellite_enabled)
          written == CacheFeatures(fc, cache_key, features, WeekTtl,
                                   set_fault)
          call == [op |-> "extract", latitude |-> latitude,
                   longitude |-> longitude, use_cache |-> use_cache,
                   hit |-> FALSE, ret |-> EmptyDict,
                   reads |-> IF use_cache THEN 1 ELSE 0, writes |-> 0,
                   get_fault |-> IF use_cache THEN get_fault ELSE "none",
                   set_fault |-> "none",
                   calls |-> [e \in Extractors |-> 0], before |-> fc.store]
      IN  IF Truthy(cached)
          THEN /\ fe' = [fe EXCEPT !.last = [call EXCEPT !.hit = TRUE,
                                                         !.ret = cached[1]]]
               /\ UNCHANGED <<cv, sp, kde, ens, fc, bp>>
          ELSE /\ fe' = [fe EXCEPT !.last =
                            [call EXCEPT
                               !.ret = features,
                               !.writes = IF use_cache THEN 1 ELSE 0,
                               !.set_fault = IF use_cache THEN set_fault
                                             ELSE "none",
                               !.calls = [e \in Extractors |-> 1]]]
               /\ fc' = [fc EXCEPT !.store = WriteBack(use_cache, fc, written)]
               /\ UNCHANGED <<cv, sp, kde, ens, bp>>

FeNext == FeExtractFeaturesForLocation

SpecFE == FeInit /\ [][FeNext]_vars

\* C12: every value of the dict extract_features_for_location returns, fresh
\* or from the cache and whatever the extractors returned, is a finite number.
C12_EveryValueFinite ==
    fe.last.op = "extract" =>
        \A k \in DOMAIN fe.last.ret : IsFinite(fe.last.ret[k])

\* the names CensusExtractor derives
CensusNames ==
    {"population_total", "median_age", "median_household_income",
     "poverty_rate", "vacancy_rate", "unemployment_rate",
     "percent_bachelors_degree", "median_home_value"}

\* a TTL on the order of a year: the 365 days of the module docstring
YearTtl == 86400 * 365

\* C16: an entry is stored with the TTL of the source it holds: no entry
\* that holds a census-derived value is stored with less than a year, and an
\* entry that holds only infrastructure or imagery values is stored with a
\* week.
C16_TtlBySource ==
    \A key \in DOMAIN fc.store :
        IF DOMAIN fc.store[key].data \cap CensusNames # {}
        THEN fc.store[key].ttl >= YearTtl
        ELSE fc.store[key].ttl = WeekTtl

\* the key of the call that has just returned
LastKey ==
    CacheKeyForLocation(fe.last.latitude, fe.last.longitude,
                        "all_features", 500)

\* the entries of the store other than the one under key are as before
OthersUnchanged(key) ==
    /\ DOMAIN fc.store \ {key} = DOMAIN fe.last.before \ {key}
    /\ \A k \in DOMAIN fc.store \ {key} : fc.store[k] = fe.last.before[k]

\* the call ran each extractor once and returned what it extracted
ExtractedOnce ==
    /\ ~fe.last.hit
    /\ \A e \in Extractors : fe.last.calls[e] = 1

\* C30 as stated: with use_cache and an entry under the key the call
\* returns that entry, calls no extractor and writes nothing; with use_cache
\* and no entry it calls each extractor once, writes one entry under the key
\* and returns the dict it wrote; without use_cache it neither reads nor
\* writes the cache.
C30_ReadThrough ==
    fe.last.op = "extract" =>
        /\ ~fe.last.use_cache =>
              /\ fe.last.reads = 0
              /\ fe.last.writes = 0
              /\ fc.store = fe.last.before
        /\ (fe.last.use_cache /\ LastKey \in DOMAIN fe.last.before) =>
              /\ fe.last.ret = Loads(fe.last.before[LastKey].data)
              /\ \A e \in Extractors : fe.last.calls[e] = 0
              /\ fe.last.writes = 0
              /\ fc.store = fe.last.before
        /\ (fe.last.use_cache /\ LastKey \notin DOMAIN fe.last.before) =>
              /\ ExtractedOnce
              /\ fe.last.writes = 1
              /\ LastKey \in DOMAIN fc.store
              /\ fe.last.ret = Loads(fc.store[LastKey].data)
              /\ OthersUnchanged(LastKey)

\* C30: the read-through protocol holds while the cache is enabled and the
\* Redis commands of the call go through: an entry under the key is
\* returned with no extractor called and nothing written, a miss calls each
\* extractor once, writes one entry under the key and returns the dict it
\* wrote.  With a disabled cache or a failed read the call extracts as on a
\* miss even if an entry exists, and its one write is stored only if the
\* write command goes through; a failed or refused write leaves the store
\* as it was.  Without use_cache the call neither reads nor writes the
\* cache.
C30_ReadThroughWhenHealthy ==
    fe.last.op = "extract" =>
        LET healthy_read == fc.enabled /\ fe.last.get_fault = "none"
            healthy_write == fc.enabled /\ fe.last.set_fault = "none"
        IN  /\ ~fe.last.use_cache =>
                  /\ fe.last.reads = 0
                  /\ fe.last.writes = 0
                  /\ fc.store = fe.last.before
                  /\ ExtractedOnce
            /\ (fe.last.use_cache /\ healthy_read
                   /\ LastKey \in DOMAIN fe.last.before) =>
                  /\ fe.last.hit
                  /\ fe.last.ret = Loads(fe.last.before[LastKey].data)
                  /\ \A e \in Extractors : fe.last.calls[e] = 0
                  /\ fe.last.reads = 1
                  /\ fe.last.writes = 0
                  /\ fc.store = fe.last.before
            /\ (fe.last.use_cache
                   /\ ~(healthy_read /\ LastKey \in DOMAIN fe.last.before)) =>
                  /\ ExtractedOnce
                  /\ fe.last.reads = 1
                  /\ fe.last.writes = 1
                  /\ OthersUnchanged(LastKey)
                  /\ IF healthy_write
                     THEN /\ LastKey \in DOMAIN fc.store
                          /\ fe.last.ret = Loads(fc.store[LastKey].data)
                          /\ fc.store[LastKey].ttl = WeekTtl
                     ELSE fc.store = fe.last.before

\* a call with use_cache found the entry an earlier call had written and
\* returned it
C30_Witness ==
    /\ fe.last.op = "extract"
    /\ fe.last.use_cache
    /\ fe.last.hit
    /\ LastKey \in DOMAIN fe.last.before
    /\ fe.last.ret = Loads(fe.last.before[LastKey].data)

(***************************************************************************)
(* BatchProcessor.process_locations.  A future is pending until a worker   *)
(* of the pool takes it, in submission order; the worker reads the cache   *)
(* and, on a miss, runs the extractors and writes the cache; the calling   *)
(* thread collects the futures as they complete.  `origin` records, for a  *)
(* cached entry and for a result, the latitude its features were extracted *)
(* at; `future` records the future a row came from.                        *)
(***************************************************************************)
MaxLocs == 2
MaxWorkers == 2

\* the batches a caller submits: location i carries the id i
Batches ==
    UNION {{[i \in 1 .. n |-> [lat |-> lats[i], lon |-> 0, id |-> i]] :
              lats \in [1 .. n -> Latitudes]} : n \in 1 .. MaxLocs}

KeyOf(loc) == CacheKeyForLocation(loc.lat, loc.lon, "all_features", 500)

\* `hit` tells that the call returned the cached entry, `source` the
\* future whose write that entry came from, `wrote` that the call's
\* cache_features returned True
Pending ==
    [state |-> "pending", result |-> EmptyDict, origin |-> 0,
     hit |-> FALSE, source |-> 0, wrote |-> FALSE]

\* BatchProcessor(max_workers): a FeatureEngineering of its own; the model
\* objects do not exist
BpInit ==
    /\ \E ping \in {"none", "ConnectionError"} :
        fc = [constructed |-> TRUE,
              enabled |-> ping = "none",
              store |-> EmptyStore,
              last |-> [op |-> "init", fault |-> ping, raised |-> FALSE,
                        cache_key |-> <<>>, features |-> EmptyDict,
                        ret |-> None]]
    /\ \E conn \in BOOLEAN :
        fe = [census_conn |-> conn, satellite_enabled |-> TRUE,
              last |-> NoExtract]
    /\ \E max_workers \in 1 .. MaxWorkers :
        bp = [max_workers |-> max_workers, pc |-> "idle",
              locations |-> <<>>, futures |-> <<>>, collected |-> {},
              origin |-> [k \in {} |-> 0], writer |-> [k \in {} |-> 0],
              results |-> <<>>, errors |-> <<>>,
              raised |-> FALSE, df |-> None]
    /\ cv = None
    /\ sp = None
    /\ kde = None
    /\ ens = None

\* process_locations(locations) up to the loop: one future per location
BpProcessLocations ==
    /\ bp.pc = "idle"
    /\ \E locations \in Batches :
        bp' = [bp EXCEPT !.pc = "collecting",
                         !.locations = locations,
                         !.futures = [i \in DOMAIN locations |-> Pending]]
    /\ UNCHANGED <<cv, sp, kde, ens, fc, fe>>

Running(b) == {i \in DOMAIN b.futures : b.futures[i].state = "running"}

\* a free worker takes the next future of the queue and runs
\* extract_features_for_location up to the cache read
BpStart(i) ==
    /\ bp.pc = "collecting"
    /\ bp.futures[i].state = "pending"
    /\ \A j \in 1 .. i - 1 : bp.futures[j].state # "pending"
    /\ Cardinality(Running(bp)) < bp.max_workers
    /\ \E get_fault \in {"none", "ConnectionError"} :
        LET cache_key == KeyOf(bp.locations[i])
            cached == GetCachedFeatures(fc, cache_key, get_fault).ret
        IN  bp' = [bp EXCEPT !.futures[i] =
                     IF Truthy(cached)
                     THEN [state |-> "done", result |-> cached[1],
                           origin |-> bp.origin[cache_key],
                           hit |-> TRUE,
                           source |-> bp.writer[cache_key], wrote |-> FALSE]
                     ELSE [Pending EXCEPT !.state = "running"]]
    /\ UNCHANGED <<cv, sp, kde, ens, fc, fe>>

\* the worker runs the rest of extract_features_for_location: the call
\* raises, or it extracts, writes the cache and returns the features
BpFinish(i) ==
    /\ bp.pc = "collecting"
    /\ bp.futures[i].state = "running"
    /\ \/ /\ bp' = [bp EXCEPT !.futures[i].state = "failed"]
          /\ UNCHANGED fc
       \/ \E osm_outcome \in OsmOutcomes,
             set_fault \in {"none", "ConnectionError"} :
            LET loc == bp.locations[i]
                features == ExtractFresh(fe.census_conn, osm_outcome,
                                         fe.satellite_enabled)
                written == CacheFeatures(fc, KeyOf(loc), features, WeekTtl,
                                         set_fault)
            IN  /\ fc' = [fc EXCEPT !.store = written.store]
                /\ bp' = [bp EXCEPT
                            !.futures[i] = [Pending EXCEPT
                                              !.state = "done",
                                              !.result = features,
                                              !.origin = loc.lat,
                                              !.wrote = written.ret],
                            !.writer = IF written.ret
                                       THEN [k \in DOMAIN @ \cup {KeyOf(loc)}
                                               |-> IF k = KeyOf(loc)
                                                   THEN i ELSE @[k]]
                                       ELSE @,
                            !.origin = IF written.ret
                                       THEN [k \in DOMAIN @ \cup {KeyOf(loc)}
                                               |-> IF k = KeyOf(loc)
                                                   THEN loc.lat ELSE @[k]]
                                       ELSE @]
    /\ UNCHANGED <<cv, sp, kde, ens, fe>>

\* a mutant: the location is taken by position in completion order
FutureToLocInOrder(b, future) ==
    b.locations[Len(b.results) + Len(b.errors) + 1]

\* loc = future_to_loc[future]
FutureToLoc(b, future) == b.locations[future]

\* a mutant: the first exception ends the call
OnExceptionAbort(b, future) ==
    [b EXCEPT !.pc = "returned", !.raised = TRUE,
              !.collected = @ \cup {future}]

\* except Exception as e: errors.append({'location_id': ..., 'error': ...})
OnException(b, future) ==
    [b EXCEPT !.errors = Append(@, [location_id |->
                                      FutureToLoc(b, future).id,
                                    error |-> "error"]),
              !.collected = @ \cup {future}]

\* data = future.result(); data['location_id'] = loc.get('id');
\* results.append(data)
OnResult(b, future) ==
    [b EXCEPT !.results =
                Append(@, [data |-> Merge(b.futures[future].result,
                                     [k \in {"location_id"} |->
                                        Number(FutureToLoc(b, future).id)]),
                           future |-> future,
                           origin |-> b.futures[future].origin]),
              !.collected = @ \cup {future}]

\* one round of `for future in as_completed(future_to_loc)`
BpCollect(i) ==
    /\ bp.pc = "collecting"
    /\ i \notin bp.collected
    /\ bp.futures[i].state \in {"done", "failed"}
    /\ bp' = IF bp.futures[i].state = "done" THEN OnResult(bp, i)
             ELSE OnException(bp, i)
    /\ UNCHANGED <<cv, sp, kde, ens, fc, fe>>

\* df = pd.DataFrame(results); return df
BpReturn ==
    /\ bp.pc = "collecting"
    /\ bp.collected = DOMAIN bp.futures
    /\ bp' = [bp EXCEPT !.pc = "returned", !.df = Some(bp.results)]
    /\ UNCHANGED <<cv, sp, kde, ens, fc, fe>>

BpNext ==
    \/ BpProcessLocations
    \/ \E i \in DOMAIN bp.futures : BpStart(i)
    \/ \E i \in DOMAIN bp.futures : BpFinish(i)
    \/ \E i \in DOMAIN bp.futures : BpCollect(i)
    \/ BpReturn

SpecBatch == BpInit /\ [][BpNext]_vars

Succeeded(b) == {i \in DOMAIN b.futures : b.futures[i].state = "done"}

Failed(b) == {i \in DOMAIN b.futures : b.futures[i].state = "failed"}

\* the rows of the returned DataFrame
Rows == {bp.df[1][r] : r \in DOMAIN bp.df[1]}

\* C17: a failed extraction never aborts the batch: no exception leaves
\* process_locations, and when it has returned, every location whose
\* extraction succeeded has its row in the result.
C17_FailureDoesNotAbort ==
    /\ ~bp.raised
    /\ bp.pc = "returned" =>
        /\ bp.df # None
        /\ \A i \in Succeeded(bp) :
              \E row \in Rows : row.future = i

\* a batch has returned in which an extraction failed and a later location
\* was collected after the failure
C17_Witness ==
    /\ bp.pc = "returned"
    /\ Failed(bp) # {}
    /\ \E row \in Rows : \E i \in Failed(bp) : i < row.future
    /\ Len(bp.errors) > 0

\* C18: every input location appears in what process_locations returns,
\* as a result row or as a reported error carrying its id.
C18_EveryLocationAccounted ==
    bp.pc = "returned" =>
        \A i \in DOMAIN bp.locations :
            \E row \in Rows : row.data["location_id"].num = bp.locations[i].id

\* C19 as stated: every returned row carries the id of the location whose
\* coordinates produced the row's features.
C19_RowOfItsCoordinates ==
    bp.pc = "returned" =>
        \A row \in Rows :
            /\ row.data["location_id"].num = bp.locations[row.future].id
            /\ row.origin = bp.locations[row.future].lat

\* C19 as amended: every returned row carries the id of the location whose
\* extraction call returned the row's features; the features were extracted
\* at that location or, on a cache hit, at a location of the same cache bin.
C19_RowOfItsCall ==
    bp.pc = "returned" =>
        /\ \A row \in Rows :
            LET loc == bp.locations[row.future]
            IN  /\ row.data["location_id"].num = loc.id
                /\ \A k \in DOMAIN bp.futures[row.future].result :
                      row.data[k] = bp.futures[row.future].result[k]
                /\ KeyOf([loc EXCEPT !.lat = row.origin]) = KeyOf(loc)
        /\ \A r1, r2 \in DOMAIN bp.df[1] :
              bp.df[1][r1].future = bp.df[1][r2].future => r1 = r2

\* two locations of one cache bin, the later one served from the cache and
\* collected first
C19_Witness ==
    /\ bp.pc = "returned"
    /\ Len(bp.df[1]) >= 2
    /\ bp.df[1][1].future > bp.df[1][2].future
    /\ bp.df[1][1].origin # bp.locations[bp.df[1][1].future].lat

\* the dicts one run of the extractors of f can produce
FreshDicts(f) ==
    {ExtractFresh(f.census_conn, osm_outcome, f.satellite_enabled) :
       osm_outcome \in OsmOutcomes}

\* the futures whose call stored its dict under cache_key
Writers(b, cache_key) ==
    {i \in DOMAIN b.futures :
       b.futures[i].wrote /\ KeyOf(b.locations[i]) = cache_key}

\* C25: under every interleaving of the workers of a batch, those of one
\* cache key included, the entry a key holds is the whole dict returned by
\* the worker whose write reached the store last, every write that reached
\* the store left an entry, a worker that was served from the cache returns
\* the whole dict of one single other worker, the last writer before its
\* read, and every worker that returns, returns the whole dict of one run
\* of the extractors.
C25_WholeDictOfOneWriter ==
    /\ \A cache_key \in DOMAIN fc.store :
          /\ cache_key \in DOMAIN bp.writer
          /\ bp.writer[cache_key] \in Writers(bp, cache_key)
          /\ Loads(fc.store[cache_key].data) =
                bp.futures[bp.writer[cache_key]].result
    /\ \A i \in DOMAIN bp.futures :
          /\ bp.futures[i].wrote => KeyOf(bp.locations[i]) \in DOMAIN fc.store
          /\ bp.futures[i].state = "done" =>
                /\ bp.futures[i].result \in FreshDicts(fe)
                /\ bp.futures[i].hit =>
                      /\ bp.futures[i].source \in
                            Writers(bp, KeyOf(bp.locations[i])) \ {i}
                      /\ bp.futures[i].result =
                            bp.futures[bp.futures[i].source].result

\* two workers missed on one key and both stored their dict, the second
\* future's before the first's, the dicts differ, and all workers have
\* finished
C25_Witness ==
    /\ bp.pc = "returned"
    /\ Len(bp.futures) >= 2
    /\ KeyOf(bp.locations[1]) = KeyOf(bp.locations[2])
    /\ bp.futures[1].wrote
    /\ bp.futures[2].wrote
    /\ bp.futures[1].result # bp.futures[2].result
    /\ bp.writer[KeyOf(bp.locations[1])] = 1
    /\ Loads(fc.store[KeyOf(bp.locations[1])].data) = bp.futures[1].result

(***************************************************************************)
(* HyperparameterOptimizer.optimize_dbscan with SpatialClusteringPredictor *)
(* as model_class.  The k-th candidate of eps_range (ascending, from       *)
(* np.linspace) is k grid units; the default, 500 m, is no candidate.  A   *)
(* silhouette is the fraction <<num, den>>, den > 0.  The coordinates are  *)
(* listed in ascending order: with min_samples = 3 a point within eps of   *)
(* core points of two clusters is itself a core point, so the partition    *)
(* DBSCAN finds does not depend on the order of the rows, and the          *)
(* silhouette does not depend on the numbering of the clusters.            *)
(***************************************************************************)
MaxPos == 5
MaxCoords == 7
DefaultEps == 500
DefaultMinSamples == 3

\* eps_range = np.linspace(100, max_eps_km * 1000, 10)
EpsRange == [k \in 1 .. MaxEps |-> k]

RECURSIVE AscendingCoords(_)
\* the coordinate arrays of exactly n rows
AscendingCoords(n) ==
    IF n = 0 THEN {<<>>}
    ELSE {Append(cx[1], cx[2]) :
            cx \in {y \in AscendingCoords(n - 1) \X (0 .. MaxPos) :
                      y[1] = <<>> \/ y[1][Len(y[1])] <= y[2]}}

\* x + y for two fractions, over the least common denominator
FracAdd(x, y) ==
    LET l == (x[2] \div Gcd(x[2], y[2])) * y[2]
    IN  Frac(x[1] * (l \div x[2]) + y[1] * (l \div y[2]), l)

RECURSIVE FracGreater(_, _)
\* x > y for two fractions, by whole parts and then by the remainders
FracGreater(x, y) ==
    LET fx == x[1] \div x[2]
        fy == y[1] \div y[2]
        rx == x[1] % x[2]
        ry == y[1] % y[2]
    IN  IF fx # fy THEN fx > fy
        ELSE IF rx = 0 THEN FALSE
        ELSE IF ry = 0 THEN TRUE
        ELSE FracGreater(<<y[2], ry>>, <<x[2], rx>>)

RECURSIVE SumDist(_, _, _)
\* the sum of the distances from point i to the points of S
SumDist(coords, i, S) ==
    IF S = {} THEN 0
    ELSE LET j == Min(S)
         IN  Haversine(coords[i], coords[j]) + SumDist(coords, i, S \ {j})

\* silhouette_samples for point i: (b - a) / max(a, b), a the mean distance to
\* the other points of its cluster, b the least mean distance to the points
\* of another cluster; 0 for a cluster of one point and for a = b = 0
SilhouetteSample(coords, labels, kept, i) ==
    LET own == {j \in kept : labels[j] = labels[i]}
        others == {labels[j] : j \in kept} \ {labels[i]}
        means == {Frac(SumDist(coords, i, {j \in kept : labels[j] = l}),
                       Cardinality({j \in kept : labels[j] = l})) :
                    l \in others}
        b == CHOOSE m \in means : \A e \in means : ~FracLess(e, m)
        p == Cardinality(own) - 1
        sum_a == SumDist(coords, i, own)
    IN  IF p = 0 THEN <<0, 1>>
        ELSE IF sum_a = 0 /\ b[1] = 0 THEN <<0, 1>>
        ELSE IF sum_a * b[2] < b[1] * p
             THEN Frac(b[1] * p - sum_a * b[2], p * b[1])
             ELSE Frac(b[1] * p - sum_a * b[2], b[2] * sum_a)

RECURSIVE SumSamples(_, _, _, _)
SumSamples(coords, labels, kept, S) ==
    IF S = {} THEN <<0, 1>>
    ELSE LET i == Min(S)
         IN  FracAdd(SilhouetteSample(coords, labels, kept, i),
                     SumSamples(coords, labels, kept, S \ {i}))

\* silhouette_score(coordinates[mask], labels[mask]): None for the ValueError
\* it raises unless 1 < n_labels < n_samples
SilhouetteScore(coords, labels, kept) ==
    LET n_labels == Cardinality({labels[j] : j \in kept})
    IN  IF ~(1 < n_labels /\ n_labels < Cardinality(kept)) THEN None
        ELSE LET total == SumSamples(coords, labels, kept, kept)
             IN  Some(Frac(total[1], total[2] * Cardinality(kept)))

\* metrics = model.train(coordinates): DBSCAN rejects an empty array
TrainMetrics(coords, eps) ==
    IF Len(coords) = 0 THEN None
    ELSE LET labels == DbscanFitPredict(coords, eps, DefaultMinSamples)
         IN  Some([labels |-> labels,
                   n_clusters |->
                       Cardinality({labels[i] : i \in DOMAIN labels} \ {-1})])

\* the body of the try for one eps: the silhouette of the candidate, None
\* when a `continue` or the except branch is taken
CandidateScore(coords, eps) ==
    LET metrics == TrainMetrics(coords, eps)
    IN  IF metrics = None THEN None
        ELSE LET labels == metrics[1].labels
                 mask == {i \in DOMAIN labels : labels[i] # -1}
             IN  IF metrics[1].n_clusters < 1 THEN None
                 ELSE IF metrics[1].n_clusters = Len(coords) THEN None
                 ELSE IF Cardinality(mask) < 3 THEN None
                 ELSE SilhouetteScore(coords, labels, mask)

\* a mutant: a tie goes to the later candidate
SilhouetteBetterOrEqual(score, best_score) == ~FracGreater(best_score, score)

\* if score > best_score
SilhouetteBetter(score, best_score) == FracGreater(score, best_score)

\* a HyperparameterOptimizer; the other objects do not exist
OptInit ==
    /\ sp = [pc |-> "constructed", coordinates |-> <<>>, next |-> 1,
             best_score |-> <<-1, 1>>, best_eps |-> DefaultEps,
             scores |-> <<>>, ret |-> None]
    /\ cv = None
    /\ kde = None
    /\ ens = None
    /\ fc = None
    /\ fe = None
    /\ bp = None

\* optimize_dbscan(model_class, coordinates) up to the loop
OptOptimizeDbscan ==
    /\ sp.pc = "constructed"
    /\ \E n \in 0 .. MaxCoords :
        \E coordinates \in AscendingCoords(n) :
            sp' = [sp EXCEPT !.pc = "searching", !.coordinates = coordinates]
    /\ UNCHANGED <<cv, kde, ens, fc, fe, bp>>

\* one round of `for eps in eps_range`
OptTryEps ==
    /\ sp.pc = "searching"
    /\ sp.next <= Len(EpsRange)
    /\ LET eps == EpsRange[sp.next]
           score == CandidateScore(sp.coordinates, eps)
           better == score # None /\ SilhouetteBetter(score[1], sp.best_score)
       IN  sp' = [sp EXCEPT
                    !.next = @ + 1,
                    !.scores = Append(@, score),
                    !.best_score = IF better THEN score[1] ELSE @,
                    !.best_eps = IF better THEN eps ELSE @]
    /\ UNCHANGED <<cv, kde, ens, fc, fe, bp>>

\* return {'eps_meters': best_eps, 'min_samples': 3}
OptReturn ==
    /\ sp.pc = "searching"
    /\ sp.next > Len(EpsRange)
    /\ sp' = [sp EXCEPT !.pc = "returned",
                        !.ret = Some([eps_meters |-> sp.best_eps,
                                      min_samples |-> 3])]
    /\ UNCHANGED <<cv, kde, ens, fc, fe, bp>>

OptNext == OptOptimizeDbscan \/ OptTryEps \/ OptReturn

SpecOptimize == OptInit /\ [][OptNext]_vars

\* the clustering of candidate k of the search in progress
LabelsOf(k) ==
    DbscanFitPredict(sp.coordinates, EpsRange[k], DefaultMinSamples)

\* zero clusters, one cluster that holds every point, or all points noise
Degenerate(k) ==
    LET labels == LabelsOf(k)
    IN  \/ \A i \in DOMAIN labels : labels[i] = -1
        \/ \A i \in DOMAIN labels : labels[i] = 0

\* the candidates that were scored
Scored == {k \in DOMAIN sp.scores : sp.scores[k] # None}

MaxCols == 3

\* the names a list is made of
ColumnNames == {FeatureNames[k] : k \in 1 .. MaxCols}

\* the lists of distinct names
NameLists ==
    UNION {{l \in [1 .. n -> ColumnNames] :
              \A i, j \in 1 .. n : l[i] = l[j] => i = j} :
           n \in 0 .. MaxCols}

\* no LocationPredictor yet, a model directory on disk; the other objects
\* do not exist
LpInit ==
    /\ ens = [pc |-> "saved", feature_names |-> <<>>,
              last |-> [op |-> "none", raised |-> FALSE, live |-> <<>>,
                        X |-> None, predicted |-> FALSE]]
    /\ cv = None
    /\ sp = None
    /\ kde = None
    /\ fc = None
    /\ fe = None
    /\ bp = None

\* LocationPredictor.load(model_dir): the list is what the file holds (a
\* file without a name reads as the list of one empty name, taken here as a
\* name the extractor never writes); nothing is compared with the schema
LpLoad ==
    /\ ens.pc = "saved"
    /\ \E feature_names \in NameLists \ {<<>>} :
        ens' = [ens EXCEPT !.pc = "loaded", !.feature_names = feature_names,
                           !.last.op = "load"]
    /\ UNCHANGED <<cv, sp, kde, fc, fe, bp>>

\* features_df[self.feature_names]: KeyError when a name is no column,
\* else the named columns in the order of the list
SelectColumns(live, feature_names) ==
    IF \E k \in DOMAIN feature_names : feature_names[k] \notin Range(live)
    THEN None
    ELSE Some(feature_names)

\* predict_single_location(latitude, longitude): extraction, column
\* selection, then the ensemble's prediction
LpPredictSingleLocation ==
    /\ ens.pc = "loaded"
    /\ \E live \in NameLists :
        LET X == SelectColumns(live, ens.feature_names)
        IN  ens' = [ens EXCEPT !.last = [op |-> "predict",
                                        raised |-> X = None,
                                        live |-> live,
                                        X |-> X,
                                        predicted |-> X # None]]
    /\ UNCHANGED <<cv, sp, kde, fc, fe, bp>>

LpNext == LpLoad \/ LpPredictSingleLocation

SpecPredictor == LpInit /\ [][LpNext]_vars

\* C21: a prediction made while the persisted list of feature names differs
\* from the list of the features the extractor produced, in names or in
\* order, raises; no prediction is computed from that call's columns.
C21_SchemaMismatchRaises ==
    (ens.last.op = "predict" /\ ens.last.live # ens.feature_names)
        => ens.last.raised /\ ~ens.last.predicted

(***************************************************************************)
(* Area prediction: the API route POST /predict-area and the script        *)
(* predict_area.py.  Coordinates are whole degrees, the radius is whole    *)
(* kilometres, the resolution whole metres.                                *)
(***************************************************************************)
\* the requests a client or a command line can carry
AreaRequests ==
    [center_lat : {-91, 0, 90, 91}, center_lon : {0, 181},
     radius_km : {-1, 0, 5, 50, 51}, resolution_meters : {-1, 0, 100, 1001}]

\* PredictAreaRequest: the Field constraints and validate_radius (a radius
\* under 0.1 km is no whole number of kilometres above 0)
SchemaAccepts(request) ==
    /\ request.center_lat >= -90 /\ request.center_lat <= 90
    /\ request.center_lon >= -180 /\ request.center_lon <= 180
    /\ request.radius_km > 0 /\ request.radius_km <= 50
    /\ request.resolution_meters > 0 /\ request.resolution_meters <= 1000

\* create_grid: np.arange from centre - radius to centre + radius.  A step
\* of 0 makes np.arange raise; a negative radius or step gives no point, and
\* the longitude step, divided by cos(center_lat), is negative for a
\* latitude beyond the poles.  A radius of 0 with a step of 0 can do either.
CreateGrid(request) ==
    IF request.resolution_meters = 0
    THEN IF request.radius_km = 0 THEN {"raised", "empty"} ELSE {"raised"}
    ELSE IF \/ request.radius_km <= 0
            \/ request.resolution_meters < 0
            \/ request.center_lat < -90 \/ request.center_lat > 90
         THEN {"empty"}
         ELSE {"points"}

\* nothing has been requested; the other objects do not exist
AreaInit ==
    /\ bp = [entry |-> "none", pc |-> "idle",
             request |-> [center_lat |-> 0, center_lon |-> 0,
                          radius_km |-> 5, resolution_meters |-> 100],
             rejected |-> FALSE, job |-> "none", grid |-> "none",
             predicted |-> FALSE]
    /\ cv = None
    /\ sp = None
    /\ kde = None
    /\ ens = None
    /\ fc = None
    /\ fe = None

\* POST /predict-area: the request body is validated against
\* PredictAreaRequest before the handler runs (422 otherwise); the handler
\* creates the job and schedules run_area_prediction
ApiPredictArea ==
    /\ bp.pc = "idle"
    /\ \E request \in AreaRequests :
        bp' = IF SchemaAccepts(request)
              THEN [bp EXCEPT !.entry = "api", !.pc = "scheduled",
                              !.request = request, !.job = "pending"]
              ELSE [bp EXCEPT !.entry = "api", !.pc = "done",
                              !.request = request, !.rejected = TRUE]
    /\ UNCHANGED <<cv, sp, kde, ens, fc, fe>>

\* run_area_prediction(job_id, request, user_id): the simulated steps, grid
\* and predictions among them, then the canned result
ApiRunAreaPrediction ==
    /\ bp.entry = "api"
    /\ bp.pc = "scheduled"
    /\ bp' = [bp EXCEPT !.pc = "done", !.job = "completed",
                        !.grid = "points", !.predicted = TRUE]
    /\ UNCHANGED <<cv, sp, kde, ens, fc, fe>>

\* predict_area.py main(args), step 1: the arguments are parsed as numbers
\* and the model is loaded; main returns when the load fails
ScriptLoad ==
    /\ bp.pc = "idle"
    /\ \E request \in AreaRequests, loaded \in BOOLEAN :
        bp' = [bp EXCEPT !.entry = "script",
                         !.pc = IF loaded THEN "loaded" ELSE "done",
                         !.request = request]
    /\ UNCHANGED <<cv, sp, kde, ens, fc, fe>>

\* main, step 2: grid = create_grid(lat, lon, args.radius, args.resolution)
ScriptCreateGrid ==
    /\ bp.entry = "script"
    /\ bp.pc = "loaded"
    /\ \E grid \in CreateGrid(bp.request) :
        bp' = [bp EXCEPT !.pc = IF grid = "raised" THEN "done" ELSE "grid",
                         !.grid = grid]
    /\ UNCHANGED <<cv, sp, kde, ens, fc, fe>>

\* main, steps 3 and 4: one feature row per grid point, then
\* predictor.ensemble.predict_proba(X, coords)
ScriptPredict ==
    /\ bp.entry = "script"
    /\ bp.pc = "grid"
    /\ bp' = [bp EXCEPT !.pc = "done", !.predicted = TRUE]
    /\ UNCHANGED <<cv, sp, kde, ens, fc, fe>>

AreaNext ==
    \/ ApiPredictArea
    \/ ApiRunAreaPrediction
    \/ ScriptLoad
    \/ ScriptCreateGrid
    \/ ScriptPredict

SpecArea == AreaInit /\ [][AreaNext]_vars

\* an out-of-range centre, a non-positive or over-large radius, or a
\* non-positive resolution
Malformed(request) ==
    \/ request.center_lat < -90 \/ request.center_lat > 90
    \/ request.center_lon < -180 \/ request.center_lon > 180
    \/ request.radius_km <= 0 \/ request.radius_km > 50
    \/ request.resolution_meters <= 0

\* C24: for a malformed request, at either entry point, no grid is
\* generated, no job is created and no prediction runs.
C24_MalformedRejectedFirst ==
    (bp.entry # "none" /\ Malformed(bp.request))
        => /\ bp.grid = "none"
           /\ bp.job = "none"
           /\ ~bp.predicted
====
